---- MODULE Spec2Model ----
(***************************************************************************)
(* Tiered caching, memory retrieval and quota accounting of the research   *)
(* assistant: ResearchAgent.chat (app/agent.py), MemoryManager             *)
(* (app/memory/memory_manager.py), AdminConfigManager                      *)
(* (app/core/admin_config.py) and the LLM operations of CardFormatter and  *)
(* ArticleAnalyzer (app/debate).                                           *)
(*                                                                         *)
(* Time is in seconds.  Distances and similarities are in thousandths      *)
(* (0.35 is 350).  Text is a sequence of one-character strings.            *)
(***************************************************************************)
EXTENDS Integers, Sequences, FiniteSets, TLC

\* ------------------------------------------------------------------------
\* Bounds of the model
\* ------------------------------------------------------------------------
MaxCalls == 2
MaxGenerations == 1
MaxTicks == 2
MaxLogins == 7
MaxWaits == 2
WaitSeconds == 450
TickSeconds == 1800
MaxDay == 30
NumRecorders == 2
NumWorkers == 2
MaxArticles == 2

\* ------------------------------------------------------------------------
\* Program constants
\* ------------------------------------------------------------------------
daily_token_limit == 100000
monthly_token_limit == 2000000
enable_rate_limiting == TRUE
enable_usage_tracking == TRUE
cache_ttl == 3600
SEMANTIC_CACHE_THRESHOLD == 350
SessionLimit == 100
RateWindow == 3600
DaySeconds == 86400
DaysPerMonth == 30

\* ------------------------------------------------------------------------
\* Input domains
\* ------------------------------------------------------------------------
Sessions == {"s1", "s2"}
Queries == { <<"c", "o", "d">>, <<" ", "C", "o", "d">>, <<"i", "c", "e">> }
Responses == { <<>>, <<"R", "1">>, <<"R", "2">> }
TokenChoices == {1200}
DistValues == {200, 349, 350, 900}
Days == (MaxDay - 21)..MaxDay
StartOfDay == 29 * DaySeconds
BeforeMidnight == 30 * DaySeconds - TickSeconds

VARIABLES
    now,                 \* wall clock, seconds
    ticks,               \* clock advances so far
    calls,               \* operations completed so far
    redis_cache,         \* Redis keys agent:cache:*
    redis_rate,          \* Redis keys agent:ratelimit:*
    response_collection, \* ChromaDB collection agent_responses
    memory_collection,   \* ChromaDB collection agent_memory
    conversations,       \* PostgreSQL table conversations
    agent_stats,         \* PostgreSQL table agent_stats, one row per date
    usage_summary,       \* PostgreSQL table usage_summary, one row per date
    usage_tracking,      \* PostgreSQL table usage_tracking
    result,              \* what the last operation returned
    recorders,           \* the concurrent callers of track_usage
    summary_start,       \* usage_summary as it was initially
    request_log,         \* per caller, the chat requests sent and the
                         \* generations completed, by time
    articles,            \* the article library, by article id
    http,                \* the last request to the API and its response
    extraction,          \* the last passage extraction: input and result
    inflight,            \* the chat requests being served concurrently
    login_attempts,      \* admin router: failed logins and lockout, by address
    admin_sessions,      \* admin router: the sessions issued
    failed_at,           \* per address, the times of the logins refused with
                         \* 401 since the address last logged in
    login                \* the last login request and its response

conc == <<recorders, summary_start>>
admin == <<login_attempts, admin_sessions, failed_at, login>>
rest == <<articles, http, extraction, inflight, admin>>
stores == <<redis_cache, redis_rate, response_collection, memory_collection,
            conversations, agent_stats, usage_summary, usage_tracking>>
vars == <<now, ticks, calls, redis_cache, redis_rate, response_collection,
          memory_collection, conversations, agent_stats, usage_summary,
          usage_tracking, result, recorders,
          summary_start, request_log, articles, http, extraction, inflight,
          login_attempts, admin_sessions, failed_at, login>>

\* ------------------------------------------------------------------------
\* Text: str.lower() and str.strip()
\* ------------------------------------------------------------------------
LowerChar(c) ==
    CASE c = "C" -> "c"
      [] c = "O" -> "o"
      [] c = "D" -> "d"
      [] c = "I" -> "i"
      [] c = "E" -> "e"
      [] OTHER -> c

lower(s) == [i \in 1..Len(s) |-> LowerChar(s[i])]

IsSpace(c) == c \in {" ", "\n"}

RECURSIVE lstrip(_)
lstrip(s) == IF s # <<>> /\ IsSpace(Head(s)) THEN lstrip(Tail(s)) ELSE s

RECURSIVE rstrip(_)
rstrip(s) ==
    IF s # <<>> /\ IsSpace(s[Len(s)]) THEN rstrip(SubSeq(s, 1, Len(s) - 1))
    ELSE s

strip(s) == rstrip(lstrip(s))

\* The key taken from the query as it was typed.
cache_key_raw(query) == <<"agent:cache:">> \o query

\* The digest is taken to be injective: the key is the normalized text.
cache_key(query) == <<"agent:cache:">> \o strip(lower(query))

CacheKeys == {cache_key(q) : q \in Queries}

\* Python truthiness of an optional str / bytes value.
Missing == [present |-> FALSE, value |-> <<>>, expires |-> 0]
Truthy(entry) == entry.present /\ entry.value # <<>>

\* ------------------------------------------------------------------------
\* Calendar
\* ------------------------------------------------------------------------
Today(t) == t \div DaySeconds
FirstOfMonth(d) == d - (d % DaysPerMonth)

\* ------------------------------------------------------------------------
\* Redis
\* ------------------------------------------------------------------------
\* GET: a key past its expiry reads as absent.
RedisGet(store, key, t) ==
    IF store[key].present /\ t < store[key].expires THEN store[key] ELSE Missing

\* A lookup that answers for a query that has no entry.
get_cached_response_any(cache, query, t) ==
    [present |-> TRUE, value |-> <<"R", "1">>, expires |-> t + cache_ttl]

get_cached_response(cache, query, t) ==
    LET cached == RedisGet(cache, cache_key(query), t)
    IN  IF Truthy(cached) THEN cached ELSE Missing

\* cache_response when the write is dropped.
cache_response_drop(cache, query, response, t) == cache

cache_response(cache, query, response, t) ==
    [cache EXCEPT ![cache_key(query)] =
        [present |-> TRUE, value |-> response, expires |-> t + cache_ttl]]

NoCounter == [present |-> FALSE, value |-> 0, expires |-> 0]

get_rate_limit(rate, session_id, t) ==
    LET count == RedisGet(rate, session_id, t)
    IN  IF ~count.present THEN SessionLimit
        ELSE IF SessionLimit - count.value > 0 THEN SessionLimit - count.value
        ELSE 0

\* INCR with the expiry set only when the key is created.
increment_rate_limit_fixed_window(rate, session_id, t) ==
    LET count == IF rate[session_id].present /\ t < rate[session_id].expires
                 THEN rate[session_id] ELSE NoCounter
    IN  [rate EXCEPT ![session_id] =
            [present |-> TRUE, value |-> count.value + 1,
             expires |-> IF count.present THEN count.expires
                         ELSE t + RateWindow]]

increment_rate_limit(rate, session_id, t) ==
    LET count == IF rate[session_id].present /\ t < rate[session_id].expires
                 THEN rate[session_id] ELSE NoCounter
    IN  [rate EXCEPT ![session_id] =
            [present |-> TRUE, value |-> count.value + 1,
             expires |-> t + RateWindow]]

\* Redis drops the keys whose time-to-live has elapsed.
Expire(store, absent, t) ==
    [k \in DOMAIN store |->
        IF store[k].present /\ t < store[k].expires THEN store[k] ELSE absent]

\* ------------------------------------------------------------------------
\* ChromaDB
\* ------------------------------------------------------------------------
\* A collection that keeps only the fragment added last.
store_memory_only(coll, session_id, content, role) ==
    <<[session_id |-> session_id, role |-> role, content |-> content]>>

store_memory(coll, session_id, content, role) ==
    Append(coll, [session_id |-> session_id, role |-> role, content |-> content])

\* query(n_results = n): the collection returns at most n documents.
search_memory(coll, n_results) ==
    IF Len(coll) < n_results THEN Len(coll) ELSE n_results

Truncate(s, n) == IF Len(s) > n THEN SubSeq(s, 1, n) ELSE s

cache_response_semantic(coll, query, response, session_id) ==
    Append(coll, [document |-> response, query |-> Truncate(query, 500),
                  role |-> "assistant", session_id |-> session_id])

\* query(n_results = 1, where role = assistant): the candidates nearest to
\* the query text; dist[i] is the distance of document i to the query.
Nearest(coll, dist) ==
    LET eligible == {i \in 1..Len(coll) : coll[i].role = "assistant"}
    IN  {i \in eligible : \A j \in eligible : dist[i] <= dist[j]}

NoSemantic == [hit |-> FALSE, response |-> <<>>, similarity |-> 0]

\* get_semantic_cache with the comparison distance <= threshold.
get_semantic_cache_le(coll, dist, i) ==
    IF i = 0 THEN NoSemantic
    ELSE IF dist[i] <= SEMANTIC_CACHE_THRESHOLD
         THEN [hit |-> TRUE, response |-> coll[i].document,
               similarity |-> 1000 - dist[i]]
         ELSE NoSemantic

\* i is the single document returned by the query, 0 when none is.
get_semantic_cache(coll, dist, i) ==
    IF i = 0 THEN NoSemantic
    ELSE IF dist[i] < SEMANTIC_CACHE_THRESHOLD
         THEN [hit |-> TRUE, response |-> coll[i].document,
               similarity |-> 1000 - dist[i]]
         ELSE NoSemantic

\* ------------------------------------------------------------------------
\* PostgreSQL
\* ------------------------------------------------------------------------
log_conversation(log, session_id, role, content, tokens) ==
    Append(log, [session_id |-> session_id, role |-> role,
                 content |-> content, tokens_used |-> tokens])

update_stats(stats, day, tokens, cache_hit) ==
    [stats EXCEPT ![day] =
        [total_queries |-> @.total_queries + 1,
         total_tokens |-> @.total_tokens + tokens,
         cache_hits |-> @.cache_hits + (IF cache_hit THEN 1 ELSE 0)]]

get_today_usage(summary, t) == summary[Today(t)].total_tokens

RECURSIVE SumTokens(_, _, _)
SumTokens(summary, from, to) ==
    IF from > to THEN 0
    ELSE (IF from \in DOMAIN summary THEN summary[from].total_tokens ELSE 0)
         + SumTokens(summary, from + 1, to)

get_month_usage(summary, t) == SumTokens(summary, FirstOfMonth(Today(t)), MaxDay)

Allowed == [allowed |-> TRUE, limit_type |-> "none"]

\* check_rate_limit with the gate left open.
check_rate_limit_open(summary, t) == Allowed

check_rate_limit(summary, t) ==
    IF ~enable_rate_limiting THEN Allowed
    ELSE IF get_today_usage(summary, t) >= daily_token_limit
         THEN [allowed |-> FALSE, limit_type |-> "daily"]
    ELSE IF get_month_usage(summary, t) >= monthly_token_limit
         THEN [allowed |-> FALSE, limit_type |-> "monthly"]
    ELSE Allowed

\* The usage_summary half of track_usage: upsert of the row of the day.
UpsertSummary(summary, day, tokens) ==
    [summary EXCEPT ![day] =
        [total_tokens |-> @.total_tokens + tokens,
         total_requests |-> @.total_requests + 1]]

TrackSummary(summary, tokens, t) ==
    IF ~enable_usage_tracking THEN summary
    ELSE UpsertSummary(summary, Today(t), tokens)

\* The usage_tracking half of track_usage: one record per call.
TrackRecord(tracking, endpoint, tokens, session_id) ==
    IF ~enable_usage_tracking THEN tracking
    ELSE Append(tracking, [session_id |-> session_id, endpoint |-> endpoint,
                           tokens_used |-> tokens])

\* ------------------------------------------------------------------------
\* Results
\* ------------------------------------------------------------------------
\* What an operation returns, with what it did on the way: llm_invoked
\* (the LLM was called), semantic_consulted (the response collection was
\* queried) and distance (the distance ChromaDB reported, -1 when it
\* reported none).
NoResult ==
    [op |-> "none", session_id |-> "", message |-> <<>>, use_cache |-> FALSE,
     success |-> FALSE, response |-> <<>>,
     cached |-> FALSE, cache_type |-> "none", similarity_score |-> 0,
     tokens_used |-> 0, memories_used |-> 0, error |-> "none",
     llm_invoked |-> FALSE, semantic_consulted |-> FALSE, distance |-> -1,
     time |-> 0, unavailable |-> "none"]

Request(op, session_id, message, use_cache, t) ==
    [NoResult EXCEPT !.op = op, !.session_id = session_id,
                     !.message = message, !.use_cache = use_cache,
                     !.time = t]

\* What the LLM service answers: an error, or a text and its token count.
LLMError == [ok |-> FALSE, content |-> <<>>, tokens |-> 0]
LLMOutcomes ==
    {LLMError} \cup
    {[ok |-> TRUE, content |-> r, tokens |-> k] : r \in Responses, k \in TokenChoices}

\* ------------------------------------------------------------------------
\* ResearchAgent.chat
\* ------------------------------------------------------------------------
\* The outcome of the two cache layers for one request: the exact entry,
\* whether the semantic layer was queried, and what it gave.
CacheLookup(message, use_cache, dist, i) ==
    LET cached == IF use_cache
                  THEN get_cached_response(redis_cache, message, now)
                  ELSE Missing
        consulted == use_cache /\ ~Truthy(cached)
        semantic == IF consulted
                    THEN get_semantic_cache(response_collection, dist, i)
                    ELSE NoSemantic
    IN  [cached |-> cached, consulted |-> consulted, semantic |-> semantic,
         distance |-> IF consulted /\ i # 0 THEN dist[i] ELSE -1]

\* The path of a request when the per-session check is left out.
Outcome_NoSessionCheck(rate_check, remaining, look, llm) ==
    IF ~rate_check.allowed THEN "denied_global"
    ELSE IF Truthy(look.cached) THEN "exact"
    ELSE IF look.semantic.hit THEN "semantic"
    ELSE IF ~llm.ok THEN "llm_error"
    ELSE "generated"

\* The path one request takes through chat.
Outcome(rate_check, remaining, look, llm) ==
    IF ~rate_check.allowed THEN "denied_global"
    ELSE IF remaining <= 0 THEN "denied_session"
    ELSE IF Truthy(look.cached) THEN "exact"
    ELSE IF look.semantic.hit THEN "semantic"
    ELSE IF ~llm.ok THEN "llm_error"
    ELSE "generated"

\* The writes placed where a failed LLM call reaches them too.
RecordsGeneration_OnError(outcome) == outcome \in {"generated", "llm_error"}

\* The code after the try block runs only when the LLM call returned.
RecordsGeneration(outcome) == outcome = "generated"

\* Only the exact-cache return counted in the daily statistics.
RecordsCacheHit_ExactOnly(outcome) == outcome = "exact"

\* A cache hit is counted in the daily statistics.
RecordsCacheHit(outcome) == outcome \in {"exact", "semantic"}

ChatResult(req, outcome, rate_check, look, llm, memories) ==
    CASE outcome = "denied_global" ->
            [req EXCEPT !.error = rate_check.limit_type]
      [] outcome = "denied_session" ->
            [req EXCEPT !.error = "session_rate_limit"]
      [] outcome = "exact" ->
            [req EXCEPT !.success = TRUE, !.response = look.cached.value,
                        !.cached = TRUE, !.cache_type = "redis_exact"]
      [] outcome = "semantic" ->
            [req EXCEPT !.success = TRUE, !.response = look.semantic.response,
                        !.cached = TRUE, !.cache_type = "chromadb_semantic",
                        !.similarity_score = look.semantic.similarity,
                        !.semantic_consulted = TRUE,
                        !.distance = look.distance]
      [] outcome = "llm_error" ->
            [req EXCEPT !.error = "openai_error", !.llm_invoked = TRUE,
                        !.semantic_consulted = look.consulted,
                        !.distance = look.distance]
      [] OTHER ->
            [req EXCEPT !.success = TRUE, !.response = llm.content,
                        !.tokens_used = llm.tokens,
                        !.memories_used = memories, !.llm_invoked = TRUE,
                        !.semantic_consulted = look.consulted,
                        !.distance = look.distance]

\* The log of one caller after one more request at time t that completed
\* generated (0 or 1) generations.  Requests of the same time share an entry.
Logged(log, t, generated) ==
    IF log # <<>> /\ log[Len(log)].time = t
    THEN [log EXCEPT ![Len(log)] =
             [time |-> t, requests |-> @.requests + 1,
              generations |-> @.generations + generated]]
    ELSE Append(log, [time |-> t, requests |-> 1, generations |-> generated])

chat(message, session_id, use_cache, use_memory, dist, i, llm) ==
    LET req == Request("chat", session_id, message, use_cache, now)
        rate_check == check_rate_limit(usage_summary, now)
        remaining == get_rate_limit(redis_rate, session_id, now)
        look == CacheLookup(message, use_cache, dist, i)
        memories == IF use_memory THEN search_memory(memory_collection, 3) ELSE 0
        outcome == Outcome(rate_check, remaining, look, llm)
    IN
    /\ calls < MaxCalls
    /\ outcome = "generated" => Len(memory_collection) < 2 * MaxGenerations
    /\ calls' = calls + 1
    /\ UNCHANGED <<now, ticks, conc, rest>>
    /\ result' = ChatResult(req, outcome, rate_check, look, llm, memories)
    /\ request_log' =
           [request_log EXCEPT ![session_id] =
               Logged(@, now, IF RecordsGeneration(outcome) THEN 1 ELSE 0)]
    /\ IF RecordsGeneration(outcome) THEN
            /\ usage_summary' = TrackSummary(usage_summary, llm.tokens, now)
            /\ usage_tracking' =
                   TrackRecord(usage_tracking, "chat", llm.tokens, session_id)
            /\ conversations' =
                   log_conversation(
                       log_conversation(conversations, session_id, "user",
                                        message, 0),
                       session_id, "assistant", llm.content, llm.tokens)
            /\ memory_collection' =
                   store_memory(
                       store_memory(memory_collection, session_id, message, "user"),
                       session_id, llm.content, "assistant")
            /\ redis_cache' =
                   IF use_cache
                   THEN cache_response(redis_cache, message, llm.content, now)
                   ELSE redis_cache
            /\ response_collection' =
                   IF use_cache
                   THEN cache_response_semantic(response_collection, message,
                                                llm.content, session_id)
                   ELSE response_collection
            /\ agent_stats' =
                   update_stats(agent_stats, Today(now), llm.tokens, FALSE)
            /\ redis_rate' = increment_rate_limit(redis_rate, session_id, now)
       ELSE IF RecordsCacheHit(outcome) THEN
            /\ agent_stats' = update_stats(agent_stats, Today(now), 0, TRUE)
            /\ UNCHANGED <<redis_cache, redis_rate, response_collection,
                           memory_collection, conversations, usage_summary,
                           usage_tracking>>
       ELSE UNCHANGED stores

\* Whether the request gets past both limit checks.
PassesLimits(session_id) ==
    /\ check_rate_limit(usage_summary, now).allowed
    /\ get_rate_limit(redis_rate, session_id, now) > 0

\* The inputs of one request.  The distances ChromaDB computes for the
\* query, the document it returns for n_results = 1 and the answer of the
\* LLM are drawn only when the request gets to use them.
Chat ==
    \E message \in Queries, session_id \in Sessions,
       use_cache \in BOOLEAN, use_memory \in BOOLEAN :
    \E dist \in (IF PassesLimits(session_id)
                    /\ CacheLookup(message, use_cache, <<>>, 0).consulted
                 THEN [1..Len(response_collection) -> DistValues]
                 ELSE {[j \in 1..Len(response_collection) |-> 0]}) :
    \E i \in (IF Nearest(response_collection, dist) = {} THEN {0}
              ELSE Nearest(response_collection, dist)) :
    \E llm \in (IF PassesLimits(session_id)
                   /\ ~Truthy(CacheLookup(message, use_cache, dist, i).cached)
                   /\ ~CacheLookup(message, use_cache, dist, i).semantic.hit
                THEN LLMOutcomes ELSE {LLMError}) :
        chat(message, session_id, use_cache, use_memory, dist, i, llm)

\* ------------------------------------------------------------------------
\* ResearchAgent.chat while a store is unavailable
\* ------------------------------------------------------------------------
\* down is the store whose calls raise, "redis" or "chroma".  No call of
\* MemoryManager catches the exception and chat catches only those of the
\* LLM call, so the first call to the store ends chat; the chat endpoint
\* turns the exception into a failure result carrying its text.
\*   redis:  get_rate_limit raises, before either cache is read.
\*   chroma: get_semantic_cache raises when use_cache is set and the exact
\*           cache missed, search_memory raises when use_memory is set, and
\*           otherwise store_memory raises after the generation, when
\*           track_usage and log_conversation have already written.
chat_unavailable(message, session_id, use_cache, use_memory, down, llm) ==
    LET req == [Request("chat", session_id, message, use_cache, now)
                    EXCEPT !.unavailable = down]
        rate_check == check_rate_limit(usage_summary, now)
        remaining == get_rate_limit(redis_rate, session_id, now)
        cached == IF use_cache
                  THEN get_cached_response(redis_cache, message, now)
                  ELSE Missing
    IN
    /\ calls < MaxCalls
    /\ calls' = calls + 1
    /\ UNCHANGED <<now, ticks, conc, rest>>
    /\ request_log' =
           [request_log EXCEPT ![session_id] = Logged(@, now, 0)]
    /\ IF ~rate_check.allowed THEN
            /\ result' = [req EXCEPT !.error = rate_check.limit_type]
            /\ UNCHANGED stores
       ELSE IF down = "redis" THEN
            /\ result' = [req EXCEPT !.error = "redis_error"]
            /\ UNCHANGED stores
       ELSE IF remaining <= 0 THEN
            /\ result' = [req EXCEPT !.error = "session_rate_limit"]
            /\ UNCHANGED stores
       ELSE IF Truthy(cached) THEN
            /\ result' = [req EXCEPT !.success = TRUE,
                                     !.response = cached.value,
                                     !.cached = TRUE,
                                     !.cache_type = "redis_exact"]
            /\ agent_stats' = update_stats(agent_stats, Today(now), 0, TRUE)
            /\ UNCHANGED <<redis_cache, redis_rate, response_collection,
                           memory_collection, conversations, usage_summary,
                           usage_tracking>>
       ELSE IF use_cache \/ use_memory THEN
            /\ result' = [req EXCEPT !.error = "chroma_error"]
            /\ UNCHANGED stores
       ELSE IF ~llm.ok THEN
            /\ result' = [req EXCEPT !.error = "openai_error",
                                     !.llm_invoked = TRUE]
            /\ UNCHANGED stores
       ELSE
            /\ Len(conversations) < 2 * MaxGenerations
            /\ result' = [req EXCEPT !.error = "chroma_error",
                                     !.llm_invoked = TRUE]
            /\ usage_summary' = TrackSummary(usage_summary, llm.tokens, now)
            /\ usage_tracking' =
                   TrackRecord(usage_tracking, "chat", llm.tokens, session_id)
            /\ conversations' =
                   log_conversation(
                       log_conversation(conversations, session_id, "user",
                                        message, 0),
                       session_id, "assistant", llm.content, llm.tokens)
            /\ UNCHANGED <<redis_cache, redis_rate, response_collection,
                           memory_collection, agent_stats>>

ChatUnavailable ==
    \E message \in Queries, session_id \in Sessions,
       use_cache \in BOOLEAN, use_memory \in BOOLEAN,
       down \in {"redis", "chroma"} :
    \E llm \in (IF PassesLimits(session_id) /\ down = "chroma"
                   /\ ~use_cache /\ ~use_memory
                THEN LLMOutcomes ELSE {LLMError}) :
        chat_unavailable(message, session_id, use_cache, use_memory, down, llm)

\* ------------------------------------------------------------------------
\* The LLM operations of CardFormatter and ArticleAnalyzer
\* ------------------------------------------------------------------------
\* What the LLM service answers to a request for JSON: an error, or a reply
\* that parses or not, and its token count.
OpError == [ok |-> FALSE, parsable |-> FALSE, tokens |-> 0]
OpOutcomes ==
    {OpError} \cup
    {[ok |-> TRUE, parsable |-> p, tokens |-> k] : p \in BOOLEAN, k \in TokenChoices}

\* One operation that returns res and records the tokens it tracks (0 when
\* it calls track_usage not at all).
OpStep(res, endpoint, tracked) ==
    /\ calls < MaxCalls
    /\ calls' = calls + 1
    /\ result' = res
    /\ usage_summary' =
           IF tracked > 0 THEN TrackSummary(usage_summary, tracked, now)
           ELSE usage_summary
    /\ usage_tracking' =
           IF tracked > 0 THEN TrackRecord(usage_tracking, endpoint, tracked, "")
           ELSE usage_tracking
    /\ UNCHANGED <<now, ticks, redis_cache, redis_rate, response_collection,
                   memory_collection, conversations, agent_stats, conc,
                   request_log, articles, http, inflight, admin>>

\* A reply the LLM returned: the call was made and consumed llm.tokens.
Replied(req, llm) ==
    [req EXCEPT !.llm_invoked = TRUE, !.tokens_used = llm.tokens]

\* long_enough: the source has at least 100 characters; found: the passage
\* was located in the source.
extract_evidence_passage(long_enough, llm, found) ==
    LET req == Request("extract_evidence_passage", "", <<>>, FALSE, now)
        rate_check == check_rate_limit(usage_summary, now)
    IN  IF ~long_enough
        THEN OpStep([req EXCEPT !.error = "too_short"], "", 0)
        ELSE IF ~rate_check.allowed
        THEN OpStep([req EXCEPT !.error = rate_check.limit_type], "", 0)
        ELSE IF ~llm.ok
        THEN OpStep([req EXCEPT !.error = "openai_error", !.llm_invoked = TRUE],
                    "", 0)
        ELSE IF ~llm.parsable
        THEN OpStep([Replied(req, llm) EXCEPT !.error = "parse_error"], "", 0)
        ELSE OpStep([Replied(req, llm) EXCEPT !.success = found],
                    "extract_evidence_passage", llm.tokens)

generate_tag(llm) ==
    LET req == Request("generate_tag", "", <<>>, FALSE, now)
        rate_check == check_rate_limit(usage_summary, now)
    IN  IF ~rate_check.allowed
        THEN OpStep([req EXCEPT !.error = rate_check.limit_type], "", 0)
        ELSE IF ~llm.ok
        THEN OpStep([req EXCEPT !.error = "openai_error", !.llm_invoked = TRUE],
                    "", 0)
        ELSE OpStep([Replied(req, llm) EXCEPT !.success = TRUE],
                    "card_format_tag", llm.tokens)

\* given: the caller passed the key phrases, so none are asked of the LLM.
highlight_card(given, llm) ==
    LET req == Request("highlight_card", "", <<>>, FALSE, now)
        rate_check == check_rate_limit(usage_summary, now)
    IN  IF given
        THEN OpStep([req EXCEPT !.success = TRUE], "", 0)
        ELSE IF ~rate_check.allowed
        THEN OpStep([req EXCEPT !.success = TRUE,
                                !.error = rate_check.limit_type], "", 0)
        ELSE IF ~llm.ok
        THEN OpStep([req EXCEPT !.success = TRUE, !.error = "openai_error",
                                !.llm_invoked = TRUE], "", 0)
        ELSE IF ~llm.parsable
        THEN OpStep([Replied(req, llm) EXCEPT !.success = TRUE,
                                              !.error = "parse_error"], "", 0)
        ELSE OpStep([Replied(req, llm) EXCEPT !.success = TRUE],
                    "card_format_highlight", llm.tokens)

analyze_article(long_enough, llm) ==
    LET req == Request("analyze_article", "", <<>>, FALSE, now)
        rate_check == check_rate_limit(usage_summary, now)
    IN  IF ~long_enough
        THEN OpStep([req EXCEPT !.error = "too_short"], "", 0)
        ELSE IF ~rate_check.allowed
        THEN OpStep([req EXCEPT !.error = rate_check.limit_type], "", 0)
        ELSE IF ~llm.ok
        THEN OpStep([req EXCEPT !.error = "openai_error", !.llm_invoked = TRUE],
                    "", 0)
        ELSE IF ~llm.parsable
        THEN OpStep([Replied(req, llm) EXCEPT !.error = "parse_error"],
                    "article_analyze", llm.tokens)
        ELSE OpStep([Replied(req, llm) EXCEPT !.success = TRUE],
                    "article_analyze", llm.tokens)

extract_cards_from_document(llm) ==
    LET req == Request("extract_cards_from_document", "", <<>>, FALSE, now)
    IN  IF ~llm.ok
        THEN OpStep([req EXCEPT !.error = "openai_error", !.llm_invoked = TRUE],
                    "", 0)
        ELSE IF ~llm.parsable
        THEN OpStep([Replied(req, llm) EXCEPT !.error = "parse_error"], "", 0)
        ELSE OpStep([Replied(req, llm) EXCEPT !.success = TRUE], "", 0)

\* The operations with the text they work on left out.
ExtractEvidencePassage ==
    \E long_enough \in BOOLEAN, llm \in OpOutcomes, found \in BOOLEAN :
        extract_evidence_passage(long_enough, llm, found) /\ UNCHANGED extraction

GenerateTag == \E llm \in OpOutcomes : generate_tag(llm) /\ UNCHANGED extraction

HighlightCard ==
    \E given \in BOOLEAN, llm \in OpOutcomes :
        highlight_card(given, llm) /\ UNCHANGED extraction

AnalyzeArticle ==
    \E long_enough \in BOOLEAN, llm \in OpOutcomes :
        analyze_article(long_enough, llm) /\ UNCHANGED extraction

ExtractCardsFromDocument ==
    \E llm \in OpOutcomes :
        extract_cards_from_document(llm) /\ UNCHANGED extraction

\* ------------------------------------------------------------------------
\* CardFormatter.extract_evidence_passage: locating the passage
\* ------------------------------------------------------------------------
max(a, b) == IF a >= b THEN a ELSE b
min(a, b) == IF a <= b THEN a ELSE b

\* The members of a set of numbers in increasing order.
RECURSIVE Ascending(_)
Ascending(S) ==
    IF S = {} THEN <<>>
    ELSE LET m == CHOOSE x \in S :
                      Cardinality({y \in S : y < x}) = Cardinality(S) \div 2
         IN  Ascending({y \in S : y < m}) \o <<m>>
                 \o Ascending({y \in S : y > m})

\* The index of the last occurrence instead of the first.
rfind(s, sub) ==
    LET at == {i \in 0..(Len(s) - Len(sub)) :
                   SubSeq(s, i + 1, i + Len(sub)) = sub}
    IN  IF at = {} THEN -1 ELSE CHOOSE i \in at : \A j \in at : i >= j

\* str.find: the index, from 0, of the first occurrence of sub in s, or -1.
find(s, sub) ==
    LET at == {i \in 0..(Len(s) - Len(sub)) :
                   SubSeq(s, i + 1, i + Len(sub)) = sub}
    IN  IF at = {} THEN -1 ELSE CHOOSE i \in at : \A j \in at : i <= j

\* str.split(): the maximal runs of characters that are not whitespace.
split(s) ==
    LET starts == Ascending({i \in 1..Len(s) :
                                 ~IsSpace(s[i]) /\ (i = 1 \/ IsSpace(s[i - 1]))})
        last(i) == CHOOSE j \in i..Len(s) :
                       /\ \A k \in i..j : ~IsSpace(s[k])
                       /\ (j = Len(s) \/ IsSpace(s[j + 1]))
    IN  [k \in 1..Len(starts) |-> SubSeq(s, starts[k], last(starts[k]))]

\* " ".join(words)
RECURSIVE join(_)
join(words) ==
    IF words = <<>> THEN <<>>
    ELSE IF Len(words) = 1 THEN words[1]
    ELSE LET half == Len(words) \div 2
         IN  join(SubSeq(words, 1, half)) \o <<" ">>
                 \o join(SubSeq(words, half + 1, Len(words)))

\* The lower-cased words of more than three characters.
significant(words) ==
    {lower(words[k]) : k \in {j \in 1..Len(words) : Len(words[j]) > 3}}

\* The window taken from the target's word count alone.
window_size_of_target(target) == Len(split(target))

window_size(target) == max(Len(split(target)), 10)

\* score > threshold, for score = overlap / count * 100.
reaches_strictly(overlap, count, threshold) == overlap * 100 > threshold * count

\* score >= threshold, for score = overlap / count * 100.
reaches(overlap, count, threshold) == overlap * 100 >= threshold * count

NoMatch == [match |-> <<>>, start |-> -1, overlap |-> 0]

\* The loop of _find_similar_passage from window i on; best.overlap stands
\* for best_score, every score having the same denominator.
RECURSIVE ScanWindows(_, _, _, _, _, _)
ScanWindows(source_words, target_words, size, threshold, i, best) ==
    IF i > Len(source_words) - size THEN best
    ELSE LET window == SubSeq(source_words, i + 1, i + size)
             window_set == significant(window)
             overlap == Cardinality(target_words \cap window_set)
             start_word_index == max(0, i - 20)
             end_word_index == min(Len(source_words), i + size + 20)
             found ==
                 [match |-> join(SubSeq(source_words, start_word_index + 1,
                                        end_word_index)),
                  start |-> Len(join(SubSeq(source_words, 1, start_word_index))),
                  overlap |-> overlap]
             improved == /\ overlap > best.overlap
                         /\ reaches(overlap, Cardinality(target_words),
                                    threshold)
         IN  IF improved
             THEN ScanWindows(source_words, target_words, size, threshold,
                              i + 1, found)
             ELSE ScanWindows(source_words, target_words, size, threshold,
                              i + 1, best)

find_similar_passage(target, source, threshold) ==
    LET target_words == significant(split(target))
    IN  IF target_words = {} THEN NoMatch
        ELSE ScanWindows(split(source), target_words, window_size(target),
                         threshold, 0, NoMatch)

Terminators == {".", "!", "?"}

\* The matches of [^.!?]*[.!?]|[^.!?]+$ in source_text, each with its
\* stripped text and its span.
sentences(source_text) ==
    LET ends == Ascending({i \in 1..Len(source_text) :
                               source_text[i] \in Terminators})
        n == Len(ends)
        begin(k) == IF k = 1 THEN 0 ELSE ends[k - 1]
        closed == [k \in 1..n |->
                      [text |-> strip(SubSeq(source_text, begin(k) + 1, ends[k])),
                       start |-> begin(k), end |-> ends[k]]]
        tail == IF n = 0 THEN 0 ELSE ends[n]
    IN  IF tail < Len(source_text)
        THEN Append(closed,
                    [text |-> strip(SubSeq(source_text, tail + 1,
                                           Len(source_text))),
                     start |-> tail, end |-> Len(source_text)])
        ELSE closed

\* The context with the passage left out when the text does not hold it.
with_passage_omitted(context_text, passage) == context_text

with_passage(context_text, passage) ==
    IF find(context_text, passage) = -1 /\ strip(passage) # <<>>
    THEN IF context_text # <<>> THEN context_text \o <<"\n">> \o passage
         ELSE passage
    ELSE context_text

build_context_passage(source_text, passage, passage_start, sentences_before, sentences_after) ==
    LET found == IF passage_start < 0 THEN find(source_text, passage)
                 ELSE passage_start
        start == IF found < 0 THEN 0 ELSE found
        all == sentences(source_text)
        holding == {k \in 1..Len(all) :
                        all[k].start <= start /\ start < all[k].end}
        passage_sentence_index ==
            (CHOOSE k \in holding : \A j \in holding : k <= j) - 1
        start_sentence == max(0, passage_sentence_index - sentences_before)
        end_sentence ==
            min(Len(all), passage_sentence_index + sentences_after + 1)
        context_text ==
            strip(join([k \in 1..(end_sentence - start_sentence) |->
                            all[start_sentence + k].text]))
    IN  IF passage = <<>> THEN <<>>
        ELSE IF all = <<>> THEN passage
        ELSE IF holding = {}
        THEN strip(SubSeq(source_text, max(0, start - 400) + 1,
                          min(Len(source_text), start + Len(passage) + 400)))
        ELSE strip(with_passage(context_text, passage))

\* The whole source as the fallback passage.
fallback_passage_whole(original_content) == original_content

fallback_passage(original_content) == Truncate(original_content, 500)

\* The dictionaries extract_evidence_passage returns.
TooShortResult ==
    [passage |-> <<>>, start_context |-> "", relevance |-> "",
     success |-> FALSE, error |-> "Source content too short"]

RateLimitResult(original_content, reason) ==
    [passage |-> Truncate(original_content, 500),
     start_context |-> "Rate limit - using first 500 chars",
     relevance |-> "Automatic fallback", success |-> FALSE, error |-> reason]

FallbackResult(original_content) ==
    [passage |-> fallback_passage(original_content),
     context_passage |->
         build_context_passage(original_content,
                               fallback_passage(original_content), 0, 0, 2),
     start_context |-> "Extraction failed - using start of document",
     relevance |-> "Automatic fallback", success |-> FALSE,
     error |-> "exception"]

\* The result for a reply that parsed, with the local passage_start next to
\* the dictionary returned.
LocatedResult(original_content, reply) ==
    LET quoted == reply.passage
        exact_start == IF quoted # <<>> THEN find(original_content, quoted)
                       ELSE -1
        fuzzy == find_similar_passage(quoted, original_content, 50)
        use_fuzzy == quoted # <<>> /\ exact_start = -1
        passage == IF use_fuzzy THEN fuzzy.match ELSE quoted
        passage_start == IF use_fuzzy THEN fuzzy.start ELSE exact_start
    IN  [returned |->
             [passage |-> passage,
              context_passage |->
                  build_context_passage(original_content, passage,
                                        passage_start, 2, 2),
              start_context |-> "reply", relevance |-> "reply",
              success |-> passage # <<>>],
         passage_start |-> passage_start]

NoExtraction == [op |-> "none"]

\* The sources the extraction is applied to.  Upper case is limited to the
\* letters LowerChar folds.
GlacierText ==
    << "I", "c", "e", " ", "s", "h", "e", "e", "t", "s", " ", "m",
       "e", "l", "t", " ", "f", "a", "s", "t", ".", " ", "C", "o",
       "d", " ", "s", "t", "o", "c", "k", "s", " ", "m", "o", "v",
       "e", " ", "n", "o", "r", "t", "h", ".", " ", "D", "e", "e",
       "p", " ", "w", "a", "t", "e", "r", " ", "w", "a", "r", "m",
       "s", " ", "s", "l", "o", "w", "l", "y", ".", " ", "O", "l",
       "d", " ", "t", "r", "a", "d", "e", " ", "r", "o", "u", "t",
       "e", "s", " ", "o", "p", "e", "n", ".", " ", "E", "a", "c",
       "h", " ", "s", "h", "i", "p", " ", "s", "a", "i", "l", "s",
       " ", "a", "l", "o", "n", "e", ".", " ", "C", "o", "l", "d",
       " ", "p", "o", "r", "t", "s", " ", "g", "r", "o", "w", " ",
       "b", "u", "s", "y", "." >>

\* GlacierText with a line break between two words of its third sentence.
WrappedText == [GlacierText EXCEPT ![56] = "\n"]

\* More than 500 characters: GlacierText four times.
LongText ==
    GlacierText \o <<" ">> \o GlacierText \o <<" ">> \o
    GlacierText \o <<" ">> \o GlacierText

\* The first five sentences of GlacierText.
FiveSentenceText == SubSeq(GlacierText, 1, 115)

\* Fewer than 100 characters.
ShortText ==
    << "I", "c", "e", " ", "s", "h", "e", "e", "t", "s", " ", "m",
       "e", "l", "t", " ", "f", "a", "s", "t", "." >>

\* More than 100 characters in eight words.
CompoundText ==
    << "D", "e", "e", "p", "w", "a", "t", "e", "r", "w", "a", "r",
       "m", "s", " ", "s", "l", "o", "w", "l", "y", "o", "l", "d",
       "t", "r", "a", "d", "e", " ", "r", "o", "u", "t", "e", "s",
       "o", "p", "e", "n", "e", "a", "c", "h", " ", "s", "h", "i",
       "p", "s", "a", "i", "l", "s", "a", "l", "o", "n", "e", " ",
       "c", "o", "l", "d", "p", "o", "r", "t", "s", "g", "r", "o",
       "w", " ", "b", "u", "s", "y", "i", "c", "e", "s", "h", "e",
       "e", "t", "s", " ", "m", "e", "l", "t", "f", "a", "s", "t",
       "c", "o", "d", "s", "t", "o", "c", "k", "s", " ", "m", "o",
       "v", "e", "n", "o", "r", "t", "h", "d", "e", "e", "p", "s",
       "e", "a" >>

\* Sixty words in twelve sentences.
SurveyText ==
    << "I", "c", "e", " ", "s", "h", "e", "e", "t", "s", " ", "m",
       "e", "l", "t", " ", "v", "e", "r", "y", " ", "f", "a", "s",
       "t", ".", " ", "C", "o", "d", " ", "s", "t", "o", "c", "k",
       "s", " ", "m", "o", "v", "e", " ", "f", "a", "r", " ", "n",
       "o", "r", "t", "h", ".", " ", "D", "e", "e", "p", " ", "w",
       "a", "t", "e", "r", " ", "w", "a", "r", "m", "s", " ", "q",
       "u", "i", "t", "e", " ", "s", "l", "o", "w", "l", "y", ".",
       " ", "O", "l", "d", " ", "t", "r", "a", "d", "e", " ", "r",
       "o", "u", "t", "e", "s", " ", "o", "p", "e", "n", " ", "e",
       "a", "r", "l", "y", ".", " ", "E", "a", "c", "h", " ", "s",
       "h", "i", "p", " ", "s", "a", "i", "l", "s", " ", "t", "h",
       "e", "r", "e", " ", "a", "l", "o", "n", "e", ".", " ", "C",
       "o", "l", "d", " ", "p", "o", "r", "t", "s", " ", "g", "r",
       "o", "w", " ", "m", "o", "r", "e", " ", "b", "u", "s", "y",
       ".", " ", "D", "r", "y", " ", "w", "i", "n", "d", "s", " ",
       "p", "u", "s", "h", " ", "s", "a", "n", "d", " ", "i", "n",
       "l", "a", "n", "d", ".", " ", "C", "o", "r", "a", "l", " ",
       "r", "e", "e", "f", "s", " ", "l", "o", "s", "e", " ", "t",
       "h", "e", "i", "r", " ", "c", "o", "l", "o", "u", "r", ".",
       " ", "I", "s", "l", "a", "n", "d", " ", "t", "o", "w", "n",
       "s", " ", "b", "u", "i", "l", "d", " ", "h", "i", "g", "h",
       " ", "w", "a", "l", "l", "s", ".", " ", "E", "v", "e", "n",
       " ", "s", "m", "a", "l", "l", " ", "r", "i", "v", "e", "r",
       "s", " ", "c", "h", "a", "n", "g", "e", " ", "c", "o", "u",
       "r", "s", "e", ".", " ", "D", "e", "n", "s", "e", " ", "f",
       "o", "r", "e", "s", "t", "s", " ", "b", "u", "r", "n", " ",
       "e", "v", "e", "r", "y", " ", "s", "u", "m", "m", "e", "r",
       ".", " ", "D", "e", "s", "e", "r", "t", " ", "l", "a", "k",
       "e", "s", " ", "f", "i", "l", "l", " ", "w", "i", "t", "h",
       " ", "r", "a", "i", "n", "." >>

\* Passages the LLM may quote.

QuoteInSentenceTwo ==
    << "D", "e", "e", "p", " ", "w", "a", "t", "e", "r", " ", "w",
       "a", "r", "m", "s", " ", "s", "l", "o", "w", "l", "y", "." >>

QuotePastSentenceFour ==
    << "D", "e", "e", "p", " ", "w", "a", "t", "e", "r", " ", "w",
       "a", "r", "m", "s", " ", "s", "l", "o", "w", "l", "y", ".",
       " ", "O", "l", "d", " ", "t", "r", "a", "d", "e", " ", "r",
       "o", "u", "t", "e", "s", " ", "o", "p", "e", "n", ".", " ",
       "E", "a", "c", "h", " ", "s", "h", "i", "p", " ", "s", "a",
       "i", "l", "s", " ", "a", "l", "o", "n", "e", ".", " ", "C",
       "o", "l", "d", " ", "p", "o", "r", "t", "s" >>

QuoteOtherCase ==
    << "d", "e", "e", "p", " ", "w", "a", "t", "e", "r", " ", "w",
       "a", "r", "m", "s", " ", "s", "l", "o", "w", "l", "y" >>

QuoteUnrelated ==
    << "w", "h", "a", "l", "e", "s", " ", "s", "i", "n", "g", " ",
       "l", "o", "u", "d", "l", "y", " ", "t", "o", "n", "i", "g",
       "h", "t" >>

QuoteHalfFound ==
    << "d", "e", "e", "p", " ", "w", "a", "t", "e", "r", " ", "x",
       "x", "x", "x", " ", "y", "y", "y", "y" >>

QuoteQuarterFound ==
    << "d", "e", "e", "p", " ", "x", "x", "x", "x", " ", "y", "y",
       "y", "y", " ", "z", "z", "z", "z" >>

QuoteShortWords ==
    << "t", "h", "e", " ", "s", "e", "a", " ", "i", "s", " ", "n",
       "o", "t", " ", "s", "o" >>

QuoteFarApart ==
    << "d", "e", "e", "p", " ", "x", "x", "x", "x", " ", "y", "y",
       "y", "y", " ", "r", "o", "u", "t", "e", "s" >>

QuoteOtherCaseWhole ==
    << "d", "e", "e", "p", " ", "w", "a", "t", "e", "r", " ", "w",
       "a", "r", "m", "s", " ", "s", "l", "o", "w", "l", "y", "." >>

QuoteInSentenceOne ==
    << "C", "o", "d", " ", "s", "t", "o", "c", "k", "s", " ", "m",
       "o", "v", "e", " ", "n", "o", "r", "t", "h", "." >>

QuoteCompoundWords ==
    << "d", "e", "e", "p", "w", "a", "t", "e", "r", "w", "a", "r",
       "m", "s", " ", "s", "l", "o", "w", "l", "y", "o", "l", "d",
       "t", "r", "a", "d", "e" >>

QuoteReefsOtherCase ==
    << "c", "o", "r", "a", "l", " ", "r", "e", "e", "f", "s", " ",
       "l", "o", "s", "e", " ", "c", "o", "l", "o", "u", "r" >>

QuoteElevenWords ==
    << "d", "r", "y", " ", "w", "i", "n", "d", "s", " ", "p", "u",
       "s", "h", " ", "s", "a", "n", "d", " ", "i", "n", "l", "a",
       "n", "d", ".", " ", "c", "o", "r", "a", "l", " ", "r", "e",
       "e", "f", "s", " ", "l", "o", "s", "e", " ", "t", "h", "e",
       "i", "r", " ", "c", "o", "l", "o", "u", "r", ".", " ", "i",
       "s", "l", "a", "n", "d" >>

QuoteNearTheStart ==
    << "c", "o", "d", " ", "s", "t", "o", "c", "k", "s", " ", "m",
       "o", "v", "e", " ", "n", "o", "r", "t", "h" >>

Documents == {"glacier", "wrapped", "long", "short", "compound", "survey"}

Document(id) ==
    CASE id = "glacier" -> GlacierText
      [] id = "wrapped" -> WrappedText
      [] id = "long" -> LongText
      [] id = "short" -> ShortText
      [] id = "compound" -> CompoundText
      [] id = "five" -> FiveSentenceText
      [] id = "survey" -> SurveyText

\* What the LLM service answers to the extraction prompt: an error, a reply
\* that does not parse, or a JSON object with the passage it quotes (none
\* when the object has no passage).
Quoting(passage) ==
    [ok |-> TRUE, parsable |-> TRUE, tokens |-> 1200, passage |-> passage]

ReplyFailures ==
    {[ok |-> FALSE, parsable |-> FALSE, tokens |-> 0, passage |-> <<>>],
     [ok |-> TRUE, parsable |-> FALSE, tokens |-> 1200, passage |-> <<>>]}

Replies(id) ==
    CASE id = "glacier" ->
             ReplyFailures \cup
             {Quoting(q) : q \in {<<>>, QuoteInSentenceTwo, QuotePastSentenceFour,
                                  QuoteOtherCase, QuoteUnrelated, QuoteHalfFound,
                                  QuoteQuarterFound, QuoteShortWords,
                                  QuoteFarApart}}
      [] id = "wrapped" ->
             {Quoting(q) : q \in {QuoteInSentenceOne, QuoteOtherCaseWhole}}
      [] id = "long" -> ReplyFailures \cup {Quoting(QuoteInSentenceTwo)}
      [] id = "short" -> {Quoting(QuoteInSentenceOne)}
      [] id = "compound" -> ReplyFailures \cup {Quoting(QuoteCompoundWords)}
      [] id = "survey" ->
             {Quoting(q) : q \in {QuoteReefsOtherCase, QuoteElevenWords,
                                  QuoteNearTheStart}}

\* extract_evidence_passage applied to a source and the reply that the LLM
\* gives when it is asked.
LocateEvidencePassage ==
    \E id \in Documents : \E reply \in Replies(id) :
        LET original_content == Document(id)
            long_enough == Len(strip(original_content)) >= 100
            rate_check == check_rate_limit(usage_summary, now)
            located == LocatedResult(original_content, reply)
            outcome ==
                IF ~long_enough
                THEN [returned |-> TooShortResult, passage_start |-> -1]
                ELSE IF ~rate_check.allowed
                THEN [returned |-> RateLimitResult(original_content,
                                                   rate_check.limit_type),
                      passage_start |-> -1]
                ELSE IF ~reply.ok \/ ~reply.parsable
                THEN [returned |-> FallbackResult(original_content),
                      passage_start |-> -1]
                ELSE located
        IN  /\ extract_evidence_passage(
                   long_enough,
                   [ok |-> reply.ok, parsable |-> reply.parsable,
                    tokens |-> reply.tokens],
                   located.returned.success)
            /\ extraction' =
                   [op |-> "extract_evidence_passage", source |-> id,
                    reply |-> reply,
                    asked |-> long_enough /\ rate_check.allowed,
                    returned |-> outcome.returned,
                    passage_start |-> outcome.passage_start]

\* _build_context_passage applied to a source, to a passage taken from it
\* and to the offset of that passage, with the sentence counts of its two
\* callers.  The function is pure: it is applied once to each input.
ContextSources == {"glacier", "wrapped", "five"}
PassageLengths == {1, 8, 24, 50, 80}
SentenceCounts == { <<2, 2>>, <<0, 2>> }

BuildContextPassage ==
    \E id \in ContextSources, length \in PassageLengths,
       counts \in SentenceCounts :
        \E passage_start \in 0..(Len(Document(id)) - 1) :
            LET source_text == Document(id)
                passage == SubSeq(source_text, passage_start + 1,
                                  min(Len(source_text), passage_start + length))
            IN  /\ extraction = NoExtraction
                /\ extraction' =
                       [op |-> "build_context_passage", source |-> id,
                        passage |-> passage, passage_start |-> passage_start,
                        sentences_before |-> counts[1],
                        sentences_after |-> counts[2],
                        context |->
                            build_context_passage(source_text, passage,
                                                  passage_start, counts[1],
                                                  counts[2])]
                /\ UNCHANGED <<now, ticks, calls, result, stores, conc,
                               request_log, articles, http, inflight, admin>>

\* ------------------------------------------------------------------------
\* The API: routers/chat.py and routers/articles.py
\* ------------------------------------------------------------------------
ArticleIds == 1..MaxArticles
Sides == {"aff", "neg"}

NoArticle == [present |-> FALSE, side |-> "none", is_processed |-> FALSE]
NoExchange == [route |-> "none", authenticated |-> FALSE, status |-> 0,
               ran |-> FALSE]

\* The routes that write to the article library or call the assistant, by
\* the name of their handler.
Routes ==
    {"chat", "search_memories", "get_history", "add_article",
     "update_article", "delete_article", "analyze_article", "seed_articles",
     "format_card", "extract_cards"}

\* The dependency each handler declares in its signature.
Dependency(route) ==
    CASE route \in {"chat", "add_article", "analyze_article", "format_card",
                    "extract_cards"} -> "require_auth_and_rate_limit"
      [] route \in {"search_memories", "get_history", "delete_article",
                    "seed_articles"} -> "get_current_user"
      [] OTHER -> "none"

\* The handlers whose operations record the tokens they use.
TracksUsage(route) ==
    route \in {"chat", "add_article", "analyze_article", "format_card"}

\* The status a handler answers with: 404 for an article that is not in
\* the library, 200 otherwise.
HandlerStatus(route, id) ==
    IF route \in {"update_article", "delete_article", "analyze_article"}
       /\ ~articles[id].present
    THEN 404 ELSE 200

\* The article library after the handler ran.  ok: the LLM analysis the
\* handler asked for succeeded.
HandlerArticles(route, id, side, ok) ==
    CASE route = "add_article" /\ ~articles[id].present /\ ok ->
            [articles EXCEPT ![id] =
                [present |-> TRUE, side |-> side, is_processed |-> TRUE]]
      [] route = "update_article" /\ articles[id].present ->
            [articles EXCEPT ![id].side = side]
      [] route = "delete_article" /\ articles[id].present ->
            [articles EXCEPT ![id] = NoArticle]
      [] route = "analyze_article" /\ articles[id].present /\ ok ->
            [articles EXCEPT ![id].side = side, ![id].is_processed = TRUE]
      [] route = "seed_articles" ->
            [a \in ArticleIds |->
                IF articles[a].present THEN articles[a]
                ELSE [present |-> TRUE, side |-> "aff",
                      is_processed |-> FALSE]]
      [] OTHER -> articles

\* One request: the dependencies of the route run first and raise 401 or
\* 429; the handler runs only when none raised.  What the operations of
\* the handler do to the assistant's stores is modelled by chat and the
\* card and article operations above; here they add the tokens they record.
Endpoint(route, authenticated, id, side, ok, tokens) ==
    LET dep == Dependency(route)
        exchange == [route |-> route, authenticated |-> authenticated,
                     status |-> 0, ran |-> FALSE]
        runs == /\ dep # "none" => authenticated
                /\ dep = "require_auth_and_rate_limit"
                     => check_rate_limit(usage_summary, now).allowed
    IN
    /\ calls < MaxCalls
    /\ calls' = calls + 1
    /\ http' =
           IF dep # "none" /\ ~authenticated
           THEN [exchange EXCEPT !.status = 401]
           ELSE IF ~runs THEN [exchange EXCEPT !.status = 429]
           ELSE [exchange EXCEPT !.status = HandlerStatus(route, id),
                                 !.ran = TRUE]
    /\ articles' =
           IF runs THEN HandlerArticles(route, id, side, ok) ELSE articles
    /\ usage_summary' =
           IF runs /\ ok /\ TracksUsage(route) /\ HandlerStatus(route, id) = 200
           THEN TrackSummary(usage_summary, tokens, now)
           ELSE usage_summary
    /\ UNCHANGED <<now, ticks, redis_cache, redis_rate, response_collection,
                   memory_collection, conversations, agent_stats,
                   usage_tracking, result, conc, request_log, extraction,
                   inflight, admin>>

ApiRequest ==
    \E route \in Routes, authenticated \in BOOLEAN, id \in ArticleIds,
       side \in Sides, ok \in BOOLEAN, tokens \in TokenChoices :
        Endpoint(route, authenticated, id, side, ok, tokens)

\* ------------------------------------------------------------------------
\* AdminConfigManager.track_usage, statement by statement
\* ------------------------------------------------------------------------
\* Each caller runs track_usage on a connection of its own: one transaction
\* that inserts the usage record, upserts the row of the day and commits.
\* The upsert locks the row of the day until the transaction commits, so a
\* second upsert of the same row waits for the first to commit and then
\* reads the committed row.
Recorders == 1..NumRecorders

Idle == [pc |-> "idle", tokens |-> 0, day |-> 0,
         row |-> [total_tokens |-> 0, total_requests |-> 0]]

\* The row of the day read and written back without a lock.
RowFree_unlocked(r, day) == TRUE

\* No other transaction holds the row of the day.
RowFree(r, day) ==
    \A q \in Recorders \ {r} :
        ~(recorders[q].pc = "upserted" /\ recorders[q].day = day)

Connect(r) ==
    /\ recorders[r].pc = "idle"
    /\ enable_usage_tracking
    /\ \E k \in TokenChoices :
           recorders' = [recorders EXCEPT ![r] = [@ EXCEPT !.pc = "connected",
                                                           !.tokens = k]]
    /\ UNCHANGED <<now, ticks, calls, stores, result, summary_start,
                   request_log, rest>>

InsertRecord(r) ==
    /\ recorders[r].pc = "connected"
    /\ recorders' = [recorders EXCEPT ![r].pc = "inserted"]
    /\ UNCHANGED <<now, ticks, calls, stores, result, summary_start,
                   request_log, rest>>

Upsert(r) ==
    /\ recorders[r].pc = "inserted"
    /\ RowFree(r, Today(now))
    /\ recorders' =
           [recorders EXCEPT ![r] =
               [@ EXCEPT !.pc = "upserted",
                         !.day = Today(now),
                         !.row = UpsertSummary(usage_summary, Today(now),
                                               recorders[r].tokens)[Today(now)]]]
    /\ UNCHANGED <<now, ticks, calls, stores, result, summary_start,
                   request_log, rest>>

Commit(r) ==
    /\ recorders[r].pc = "upserted"
    /\ recorders' = [recorders EXCEPT ![r].pc = "done"]
    /\ usage_summary' =
           [usage_summary EXCEPT ![recorders[r].day] = recorders[r].row]
    /\ usage_tracking' =
           TrackRecord(usage_tracking, "chat", recorders[r].tokens, "")
    /\ UNCHANGED <<now, ticks, calls, redis_cache, redis_rate,
                   response_collection, memory_collection, conversations,
                   agent_stats, result, summary_start, request_log,
                   rest>>

\* ------------------------------------------------------------------------
\* ResearchAgent.chat served to several callers at once
\* ------------------------------------------------------------------------
\* Redis, ChromaDB and PostgreSQL are shared by every process that serves
\* chat, and chat takes no lock.  A request reads and writes the stores in
\* three stretches, between which the requests of the other processes run:
\* the two limit checks; the cache lookups, after which the LLM is called;
\* and, when the reply is there, the writes.
Workers == 1..NumWorkers

\* The lookup of a request that has consulted no cache.
NoLookup ==
    [cached |-> Missing, consulted |-> FALSE, semantic |-> NoSemantic,
     distance |-> -1]

NoFlight ==
    [pc |-> "idle", session_id |-> "", message |-> <<>>, use_cache |-> FALSE,
     look |-> NoLookup, outcome |-> "none"]

Returned(w, outcome) ==
    [inflight EXCEPT ![w] = [@ EXCEPT !.pc = "done", !.outcome = outcome]]

\* agent.py 72-92: the request arrives and passes or fails the two checks.
\* The concurrent requests are those that use the caches.
Begin(w) ==
    \E message \in Queries, session_id \in Sessions, use_cache \in {TRUE} :
        LET req == Request("chat", session_id, message, use_cache, now)
            rate_check == check_rate_limit(usage_summary, now)
            remaining == get_rate_limit(redis_rate, session_id, now)
            outcome == Outcome(rate_check, remaining, NoLookup, LLMError)
            arrived == [NoFlight EXCEPT !.session_id = session_id,
                                        !.message = message,
                                        !.use_cache = use_cache]
        IN  /\ inflight[w].pc = "idle"
            /\ IF outcome \in {"denied_global", "denied_session"}
               THEN /\ inflight' =
                           [inflight EXCEPT ![w] =
                               [arrived EXCEPT !.pc = "done",
                                               !.outcome = outcome]]
                    /\ result' = ChatResult(req, outcome, rate_check, NoLookup,
                                            LLMError, 0)
               ELSE /\ inflight' =
                           [inflight EXCEPT ![w] =
                               [arrived EXCEPT !.pc = "admitted"]]
                    /\ UNCHANGED result
            /\ UNCHANGED <<now, ticks, calls, stores, conc, request_log,
                           articles, http, extraction, admin>>

\* agent.py 94-157: the exact cache, then the semantic cache; a hit is
\* returned, a miss sends the prompt to the LLM.
Lookup(w) ==
    LET f == inflight[w]
        req == Request("chat", f.session_id, f.message, f.use_cache, now)
    IN
    /\ f.pc = "admitted"
    /\ \E dist \in (IF CacheLookup(f.message, f.use_cache, <<>>, 0).consulted
                     THEN [1..Len(response_collection) -> DistValues]
                     ELSE {[j \in 1..Len(response_collection) |-> 0]}) :
       \E i \in (IF Nearest(response_collection, dist) = {} THEN {0}
                 ELSE Nearest(response_collection, dist)) :
        LET look == CacheLookup(f.message, f.use_cache, dist, i)
            outcome == Outcome(Allowed, 1, look, LLMError)
        IN  IF RecordsCacheHit(outcome)
            THEN /\ inflight' = Returned(w, outcome)
                 /\ result' = ChatResult(req, outcome, Allowed, look, LLMError, 0)
                 /\ agent_stats' = update_stats(agent_stats, Today(now), 0, TRUE)
                 /\ UNCHANGED <<redis_cache, redis_rate, response_collection,
                                memory_collection, conversations, usage_summary,
                                usage_tracking>>
            ELSE /\ inflight' = [inflight EXCEPT ![w] =
                                     [@ EXCEPT !.pc = "calling", !.look = look]]
                 /\ UNCHANGED <<result, stores>>
    /\ UNCHANGED <<now, ticks, calls, conc, request_log, articles, http,
                   extraction, admin>>

\* agent.py 159-220: the LLM answers or fails; the answer is recorded,
\* logged, remembered, cached and counted.
Finish(w) ==
    LET f == inflight[w]
        req == Request("chat", f.session_id, f.message, f.use_cache, now)
    IN
    /\ f.pc = "calling"
    /\ \E llm \in LLMOutcomes :
        LET outcome == Outcome(Allowed, 1, f.look, llm)
        IN  /\ inflight' = Returned(w, outcome)
            /\ result' = ChatResult(req, outcome, Allowed, f.look, llm, 0)
            /\ IF RecordsGeneration(outcome) THEN
                    /\ usage_summary' =
                           TrackSummary(usage_summary, llm.tokens, now)
                    /\ usage_tracking' =
                           TrackRecord(usage_tracking, "chat", llm.tokens,
                                       f.session_id)
                    /\ conversations' =
                           log_conversation(
                               log_conversation(conversations, f.session_id,
                                                "user", f.message, 0),
                               f.session_id, "assistant", llm.content,
                               llm.tokens)
                    /\ memory_collection' =
                           store_memory(
                               store_memory(memory_collection, f.session_id,
                                            f.message, "user"),
                               f.session_id, llm.content, "assistant")
                    /\ redis_cache' =
                           IF f.use_cache
                           THEN cache_response(redis_cache, f.message,
                                               llm.content, now)
                           ELSE redis_cache
                    /\ response_collection' =
                           IF f.use_cache
                           THEN cache_response_semantic(response_collection,
                                                        f.message, llm.content,
                                                        f.session_id)
                           ELSE response_collection
                    /\ agent_stats' =
                           update_stats(agent_stats, Today(now), llm.tokens, FALSE)
                    /\ redis_rate' =
                           increment_rate_limit(redis_rate, f.session_id, now)
               ELSE UNCHANGED stores
    /\ UNCHANGED <<now, ticks, calls, conc, request_log, articles, http,
                   extraction, admin>>

\* ------------------------------------------------------------------------
\* Admin login (server/routers/admin.py)
\* ------------------------------------------------------------------------
SESSION_EXPIRY_HOURS == 4
MAX_LOGIN_ATTEMPTS == 5
LOCKOUT_MINUTES == 15

\* The client addresses _get_client_ip tells apart.
Clients == {"10.0.0.1", "10.0.0.2"}

\* lockout_until of an address that is not locked out.
None == -1

\* The entry the defaultdict makes for an address it does not hold.
NoAttempts == [attempts |-> 0, lockout_until |-> None]

NoLogin == [ip |-> "none", correct |-> FALSE, time |-> 0, status |-> 0]

\* _check_rate_limit: whether the address is locked out at time t, and the
\* table after the check, which resets the entry of a lockout that is over.
admin_check_rate_limit(attempts, ip, t) ==
    IF attempts[ip].lockout_until # None
    THEN IF t < attempts[ip].lockout_until
         THEN [locked |-> TRUE, attempts |-> attempts]
         ELSE [locked |-> FALSE,
               attempts |-> [attempts EXCEPT ![ip] = NoAttempts]]
    ELSE [locked |-> FALSE, attempts |-> attempts]

\* The lockout set only once the count is past the maximum.
record_failed_login_past_maximum(attempts, ip, t) ==
    [attempts EXCEPT ![ip] =
        [attempts |-> @.attempts + 1,
         lockout_until |->
             IF @.attempts + 1 > MAX_LOGIN_ATTEMPTS
             THEN t + LOCKOUT_MINUTES * 60
             ELSE @.lockout_until]]

record_failed_login(attempts, ip, t) ==
    [attempts EXCEPT ![ip] =
        [attempts |-> @.attempts + 1,
         lockout_until |->
             IF @.attempts + 1 >= MAX_LOGIN_ATTEMPTS
             THEN t + LOCKOUT_MINUTES * 60
             ELSE @.lockout_until]]

\* del _login_attempts[ip]: the address reads as the default entry again.
clear_failed_attempts(attempts, ip) == [attempts EXCEPT ![ip] = NoAttempts]

cleanup_expired_sessions(sessions, t) ==
    SelectSeq(sessions, LAMBDA session : ~(t > session.expires_at))

\* POST /admin/login from address ip with a password that verifies or does
\* not; LoginRequest has rejected an empty password before the handler runs.
admin_login(ip, correct) ==
    LET checked == admin_check_rate_limit(login_attempts, ip, now)
        sessions == cleanup_expired_sessions(admin_sessions, now)
        request == [ip |-> ip, correct |-> correct, time |-> now,
                    status |-> 0]
    IN
    /\ calls < MaxLogins
    /\ calls' = calls + 1
    /\ IF checked.locked THEN
            /\ login' = [request EXCEPT !.status = 429]
            /\ UNCHANGED <<login_attempts, admin_sessions, failed_at>>
       ELSE IF correct THEN
            /\ login' = [request EXCEPT !.status = 200]
            /\ login_attempts' = clear_failed_attempts(checked.attempts, ip)
            /\ admin_sessions' =
                   Append(sessions,
                          [created_at |-> now,
                           expires_at |-> now + SESSION_EXPIRY_HOURS * 3600,
                           ip |-> ip])
            /\ failed_at' = [failed_at EXCEPT ![ip] = <<>>]
       ELSE
            /\ login' = [request EXCEPT !.status = 401]
            /\ login_attempts' = record_failed_login(checked.attempts, ip, now)
            /\ admin_sessions' = sessions
            /\ failed_at' = [failed_at EXCEPT ![ip] = Append(@, now)]
    /\ UNCHANGED <<now, ticks, stores, result, conc, request_log, articles,
                   http, extraction, inflight>>

AdminLogin == \E ip \in Clients, correct \in BOOLEAN : admin_login(ip, correct)

\* Time passes between two logins.
Wait ==
    /\ ticks < MaxWaits
    /\ ticks' = ticks + 1
    /\ now' = now + WaitSeconds
    /\ redis_cache' = Expire(redis_cache, Missing, now')
    /\ redis_rate' = Expire(redis_rate, NoCounter, now')
    /\ UNCHANGED <<calls, response_collection, memory_collection,
                   conversations, agent_stats, usage_summary, usage_tracking,
                   result, conc, request_log, rest>>

\* ------------------------------------------------------------------------
\* Time
\* ------------------------------------------------------------------------
Tick ==
    /\ ticks < MaxTicks
    /\ ticks' = ticks + 1
    /\ now' = now + TickSeconds
    /\ redis_cache' = Expire(redis_cache, Missing, now')
    /\ redis_rate' = Expire(redis_rate, NoCounter, now')
    /\ UNCHANGED <<calls, response_collection, memory_collection,
                   conversations, agent_stats, usage_summary, usage_tracking,
                   result, conc, request_log, rest>>

\* ------------------------------------------------------------------------
\* Initial states
\* ------------------------------------------------------------------------
NoUsage == [total_tokens |-> 0, total_requests |-> 0]
NoStats == [total_queries |-> 0, total_tokens |-> 0, cache_hits |-> 0]

FreshUsage == [d \in Days |-> NoUsage]

\* The current day one generation short of the daily limit.
NearDailyLimit(day) ==
    [d \in Days |->
        IF d = day
        THEN [total_tokens |-> daily_token_limit - 500, total_requests |-> 90]
        ELSE NoUsage]

\* The month one generation short of the monthly limit, the current day
\* unused.
NearMonthlyLimit(day) ==
    [d \in Days |->
        IF d \in (day - 19)..(day - 1)
        THEN [total_tokens |-> daily_token_limit + 200, total_requests |-> 90]
        ELSE IF d = day - 20
        THEN [total_tokens |-> daily_token_limit - 4300, total_requests |-> 90]
        ELSE NoUsage]

FreshRate == [s \in Sessions |-> NoCounter]

\* Session s1 one generation short of the per-session limit.
NearSessionLimit(t) ==
    [s \in Sessions |->
        IF s = "s1"
        THEN [present |-> TRUE, value |-> SessionLimit - 1,
              expires |-> t + RateWindow]
        ELSE NoCounter]

NoRequests == [s \in Sessions |-> <<>>]

\* The requests behind NearSessionLimit(t): s1 has sent SessionLimit - 1
\* requests at time t, each of them generated.
NearSessionLimitRequests(t) ==
    [s \in Sessions |->
        IF s = "s1"
        THEN << [time |-> t, requests |-> SessionLimit - 1,
                 generations |-> SessionLimit - 1] >>
        ELSE <<>>]

\* Clock, usage table, per-session counters and request log the program
\* starts from.
Scenarios ==
    { [now |-> StartOfDay, usage |-> FreshUsage, rate |-> FreshRate,
       log |-> NoRequests],
      [now |-> StartOfDay, usage |-> FreshUsage,
       rate |-> NearSessionLimit(StartOfDay - 2000),
       log |-> NearSessionLimitRequests(StartOfDay - 2000)],
      [now |-> BeforeMidnight, usage |-> NearDailyLimit(Today(BeforeMidnight)),
       rate |-> FreshRate, log |-> NoRequests],
      [now |-> BeforeMidnight, usage |-> NearMonthlyLimit(Today(BeforeMidnight)),
       rate |-> FreshRate, log |-> NoRequests] }

Init ==
    /\ \E sc \in Scenarios :
        /\ now = sc.now
        /\ usage_summary = sc.usage
        /\ redis_rate = sc.rate
        /\ request_log = sc.log
    /\ ticks = 0
    /\ calls = 0
    /\ redis_cache = [k \in CacheKeys |-> Missing]
    /\ response_collection = <<>>
    /\ memory_collection = <<>>
    /\ conversations = <<>>
    /\ agent_stats = [d \in Days |-> NoStats]
    /\ usage_tracking = <<>>
    /\ result = NoResult
    /\ recorders = [r \in Recorders |-> Idle]
    /\ summary_start = usage_summary
    /\ articles = [a \in ArticleIds |-> NoArticle]
    /\ http = NoExchange
    /\ extraction = NoExtraction
    /\ inflight = [w \in Workers |-> NoFlight]
    /\ login_attempts = [ip \in Clients |-> NoAttempts]
    /\ admin_sessions = <<>>
    /\ failed_at = [ip \in Clients |-> <<>>]
    /\ login = NoLogin

Next == Tick \/ Chat

Spec == Init /\ [][Next]_vars

\* The admin login over time.
NextLogin == Wait \/ AdminLogin

SpecLogin == Init /\ [][NextLogin]_vars

\* chat asked the same question by every caller, without memory search.
ChatSameQuery ==
    \E message \in {<<"c", "o", "d">>}, session_id \in Sessions,
       use_cache \in BOOLEAN, use_memory \in {FALSE} :
    \E dist \in (IF PassesLimits(session_id)
                    /\ CacheLookup(message, use_cache, <<>>, 0).consulted
                 THEN [1..Len(response_collection) -> DistValues]
                 ELSE {[j \in 1..Len(response_collection) |-> 0]}) :
    \E i \in (IF Nearest(response_collection, dist) = {} THEN {0}
              ELSE Nearest(response_collection, dist)) :
    \E llm \in (IF PassesLimits(session_id)
                   /\ ~Truthy(CacheLookup(message, use_cache, dist, i).cached)
                   /\ ~CacheLookup(message, use_cache, dist, i).semantic.hit
                THEN LLMOutcomes ELSE {LLMError}) :
        chat(message, session_id, use_cache, use_memory, dist, i, llm)

NextClock == Tick \/ ChatSameQuery

\* The assistant with a clock that keeps advancing.
SpecClock == Init /\ [][NextClock]_vars /\ WF_vars(Tick)

\* The assistant together with the card and article operations.
NextOps ==
    \/ Tick
    \/ Chat
    \/ ExtractEvidencePassage
    \/ GenerateTag
    \/ HighlightCard
    \/ AnalyzeArticle
    \/ ExtractCardsFromDocument

SpecOps == Init /\ [][NextOps]_vars

\* The assistant during an outage of one of its stores.
NextOutage ==
    \/ Tick
    \/ ChatUnavailable

SpecOutage == Init /\ [][NextOutage]_vars

\* Concurrent chat requests.
NextInflight ==
    \/ \E w \in Workers : Begin(w)
    \/ \E w \in Workers : Lookup(w)
    \/ \E w \in Workers : Finish(w)

SpecInflight == Init /\ [][NextInflight]_vars

\* The extraction of passages.
NextCards ==
    \/ Tick
    \/ LocateEvidencePassage

SpecCards == Init /\ [][NextCards]_vars

\* The context of a passage.
NextContext == BuildContextPassage

SpecContext == Init /\ [][NextContext]_vars

\* The API.
NextApi ==
    \/ Tick
    \/ ApiRequest

SpecApi == Init /\ [][NextApi]_vars

\* Concurrent callers of track_usage.
NextConc ==
    \/ Tick
    \/ \E r \in Recorders : Connect(r)
    \/ \E r \in Recorders : InsertRecord(r)
    \/ \E r \in Recorders : Upsert(r)
    \/ \E r \in Recorders : Commit(r)

SpecConc == Init /\ [][NextConc]_vars

\* ========================================================================
\* Properties
\* ========================================================================
\* A step that is one chat request.
ChatStep == calls' = calls + 1 /\ result'.op = "chat"

\* The request before this one was a chat request that ended in a
\* successful generation.
Generated(r) == r.op = "chat" /\ r.success /\ r.llm_invoked

\* The non-expired exact-cache entry of a query, before the request.
LiveEntry(message) == RedisGet(redis_cache, cache_key(message), now)

\* C1: the same query sent twice within the cache TTL with use_cache = true:
\* the first call is generated (tokens_used > 0), the second one, when it is
\* not denied, is answered from the exact cache with the identical text,
\* tokens_used = 0 and no LLM call.
C1_RepeatIsExactHit ==
    [][(/\ ChatStep
        /\ Generated(result) /\ result.use_cache
        /\ result'.use_cache
        /\ result'.message = result.message
        /\ result'.time - result.time < cache_ttl
        /\ PassesLimits(result'.session_id))
       => (/\ result.tokens_used > 0
           /\ result'.success
           /\ result'.cache_type = "redis_exact"
           /\ result'.response = result.response
           /\ result'.tokens_used = 0
           /\ ~result'.llm_invoked)]_vars

\* C2: a request with use_cache = true that is let through, for which the
\* exact cache holds an entry and the response collection holds a qualifying
\* entry, returns the exact-cache value and does not query the response
\* collection.
C2_ExactBeforeSemantic ==
    [][(/\ ChatStep
        /\ result'.use_cache
        /\ PassesLimits(result'.session_id)
        /\ LiveEntry(result'.message).present
        /\ response_collection # <<>>
        /\ ~(result'.semantic_consulted
             /\ result'.distance >= SEMANTIC_CACHE_THRESHOLD))
       => (/\ result'.cache_type = "redis_exact"
           /\ result'.response = LiveEntry(result'.message).value
           /\ ~result'.semantic_consulted)]_vars

\* C3: in every state of the stores and quota counters, a request with
\* use_cache = true whose normalized query has a non-expired exact-cache
\* entry returns that entry, with cost 0 and marked as an exact-cache result.
C3_LiveEntryIsReturned ==
    [][(/\ ChatStep
        /\ result'.use_cache
        /\ LiveEntry(result'.message).present)
       => (/\ result'.success
           /\ result'.cached
           /\ result'.cache_type = "redis_exact"
           /\ result'.response = LiveEntry(result'.message).value
           /\ result'.tokens_used = 0)]_vars

\* The distance between the texts of two queries in the embedding space.
C4_QueryDistance(q1, q2) ==
    IF q1 = q2 THEN 0
    ELSE IF cache_key(q1) = cache_key(q2) THEN 50
    ELSE 200

\* C4: a first query is generated and cached with use_cache = true; a second,
\* differently worded query at distance 0.2 from the first, sent with
\* use_cache = true and let through, returns the first response as a
\* semantic-cache hit with similarity 0.8 and without an LLM call.
C4_NearQueryIsSemanticHit ==
    [][(/\ ChatStep
        /\ Generated(result) /\ result.use_cache
        /\ result'.use_cache
        /\ cache_key(result'.message) # cache_key(result.message)
        /\ C4_QueryDistance(result.message, result'.message) = 200
        /\ PassesLimits(result'.session_id))
       => (/\ result'.success
           /\ result'.cache_type = "chromadb_semantic"
           /\ result'.response = result.response
           /\ result'.similarity_score = 800
           /\ ~result'.llm_invoked)]_vars

\* C5: when the response collection is queried and returns a candidate, the
\* request is a semantic hit exactly when the candidate's distance is
\* strictly below 0.35 (0.349 hits, 0.35 misses), and a hit returns a stored
\* response with similarity 1 - distance.
C5_ThresholdIsStrict ==
    (result.op = "chat" /\ result.semantic_consulted /\ result.distance # -1)
    => /\ (result.cache_type = "chromadb_semantic") <=> (result.distance < 350)
       /\ result.distance = 350 => result.cache_type # "chromadb_semantic"
       /\ result.distance = 349 => result.cache_type = "chromadb_semantic"
       /\ result.cache_type = "chromadb_semantic"
            => /\ result.similarity_score = 1000 - result.distance
               /\ \E i \in 1..Len(response_collection) :
                      response_collection[i].document = result.response

C5_Witness ==
    /\ result.op = "chat"
    /\ result.semantic_consulted
    /\ result.distance = 349
    /\ result.cache_type = "chromadb_semantic"
    /\ result.similarity_score = 651

C5_WitnessMiss ==
    /\ result.op = "chat"
    /\ result.semantic_consulted
    /\ result.distance = 350
    /\ result.llm_invoked

\* C7: a request that the global quota check or the per-caller limit denies
\* returns a failure with a reason, calls no LLM and leaves every store
\* unchanged.
C7_DenialChangesNothing ==
    [][(ChatStep /\ ~PassesLimits(result'.session_id))
       => (/\ ~result'.success
           /\ result'.error \in {"daily", "monthly", "session_rate_limit"}
           /\ ~result'.llm_invoked
           /\ UNCHANGED stores)]_vars

C7_Witness ==
    /\ result.op = "chat"
    /\ result.error = "session_rate_limit"
    /\ ~result.success
    /\ get_rate_limit(redis_rate, result.session_id, now) = 0

\* C8: when the LLM call of a request fails, the request returns a failure
\* carrying the error, and the exact cache, the response collection and the
\* memory collection receive no write.
C8_FailedCallWritesNothing ==
    [][(ChatStep /\ result'.llm_invoked /\ ~result'.success)
       => (/\ result'.error = "openai_error"
           /\ UNCHANGED <<redis_cache, response_collection,
                          memory_collection>>)]_vars

C8_Witness ==
    /\ result.op = "chat"
    /\ result.llm_invoked
    /\ result.error = "openai_error"

\* What a successful generation adds to the memory collection and to the
\* quota counters.
C9_MemoryAndQuota ==
    /\ memory_collection' =
           memory_collection \o
           << [session_id |-> result'.session_id, role |-> "user",
               content |-> result'.message],
              [session_id |-> result'.session_id, role |-> "assistant",
               content |-> result'.response] >>
    /\ usage_summary'[Today(now)].total_tokens =
           usage_summary[Today(now)].total_tokens + result'.tokens_used
    /\ redis_rate'[result'.session_id].present
    /\ redis_rate'[result'.session_id].value =
           (IF RedisGet(redis_rate, result'.session_id, now).present
            THEN redis_rate[result'.session_id].value ELSE 0) + 1

\* What a successful generation writes to the two cache tiers.
C9_CacheWrites ==
    /\ redis_cache'[cache_key(result'.message)] =
           [present |-> TRUE, value |-> result'.response,
            expires |-> now + 3600]
    /\ response_collection' =
           Append(response_collection,
                  [document |-> result'.response, query |-> result'.message,
                   role |-> "assistant", session_id |-> result'.session_id])

RECURSIVE C10_Committed(_, _)
C10_Committed(day, n) ==
    IF n = 0 THEN 0
    ELSE (IF recorders[n].pc = "done" /\ recorders[n].day = day
          THEN recorders[n].tokens ELSE 0) + C10_Committed(day, n - 1)

\* C10: whatever the interleaving of the concurrent recorders, the total of
\* a day is the total before them plus the tokens of every recorder that
\* has recorded on that day: after N recorders of T tokens each, the total
\* before plus N * T.
C10_NoLostIncrement ==
    \A d \in Days :
        usage_summary[d].total_tokens =
            summary_start[d].total_tokens + C10_Committed(d, NumRecorders)

C10_Witness ==
    /\ \A r \in Recorders :
           recorders[r].pc = "done" /\ recorders[r].day = Today(now)
    /\ usage_summary[Today(now)].total_tokens =
           summary_start[Today(now)].total_tokens + NumRecorders * 1200
    /\ Len(usage_tracking) = NumRecorders

\* Queries that differ from one another in letter case and in leading and
\* trailing blanks, and some that differ in more.
C12_Queries ==
    Queries \cup
    { <<>>, <<" ">>, <<" ", " ">>,
      <<"C", "O", "D">>, <<"c", "o", "d", " ">>, <<" ", " ", "c", "O", "d", " ">>,
      <<"c", "o", " ", "d">>, <<"C", "o", " ", "D", " ">>, <<"c", "o">>,
      <<"I", "C", "E">>, <<"i", "c", "e", " ", " ">>, <<"d", "o", "c">> }

\* Two characters that are the same letter.
C12_SameLetter(a, b) ==
    \/ a = b
    \/ \E pair \in { <<"c", "C">>, <<"o", "O">>, <<"d", "D">>,
                     <<"i", "I">>, <<"e", "E">> } :
           <<a, b>> = pair \/ <<b, a>> = pair

\* The number of blanks a text begins with, and the number it ends with.
C12_Leading(q) ==
    Cardinality({k \in 1..Len(q) : \A j \in 1..k : q[j] = " "})
C12_Trailing(q) ==
    Cardinality({k \in 1..Len(q) : \A j \in k..Len(q) : q[j] = " "})

\* The two queries differ only in letter case and in leading and trailing
\* blanks.
C12_SameButCaseAndBlanks(q1, q2) ==
    LET n1 == Len(q1) - C12_Leading(q1) - C12_Trailing(q1)
        n2 == Len(q2) - C12_Leading(q2) - C12_Trailing(q2)
    IN  IF n1 <= 0 \/ n2 <= 0 THEN n1 <= 0 /\ n2 <= 0
        ELSE /\ n1 = n2
             /\ \A k \in 1..n1 :
                    C12_SameLetter(q1[C12_Leading(q1) + k],
                                   q2[C12_Leading(q2) + k])

\* C12: normalizing a query twice gives what normalizing it once gives; two
\* queries that differ only in letter case or in leading and trailing
\* blanks have the same exact-cache key, and a lookup for one returns what a
\* lookup for the other returns; a request answered from the exact cache
\* returns the entry kept under its normalized query.
C12_EqualQueriesShareKey ==
    /\ \A q \in C12_Queries :
           strip(lower(strip(lower(q)))) = strip(lower(q))
    /\ \A q1 \in C12_Queries, q2 \in Queries \cup {result.message} :
           C12_SameButCaseAndBlanks(q1, q2)
           => /\ cache_key(q1) = cache_key(q2)
              /\ cache_key(q1) \in CacheKeys
                   => get_cached_response(redis_cache, q1, now)
                          = get_cached_response(redis_cache, q2, now)
    /\ (result.op = "chat" /\ result.cache_type = "redis_exact"
        /\ result.time = now)
       => redis_cache[<<"agent:cache:">> \o strip(lower(result.message))].value
              = result.response

\* A response cached under "cod" is returned for " Cod".
C12_Witness ==
    /\ result.op = "chat"
    /\ result.cache_type = "redis_exact"
    /\ result.message = <<" ", "C", "o", "d">>
    /\ Len(conversations) = 2
    /\ conversations[1].content = <<"c", "o", "d">>
    /\ result.response = conversations[2].content
    /\ C12_SameButCaseAndBlanks(<<" ", "C", "o", "d">>, <<"c", "o", "d">>)


\* C13: a request made while the exact cache or the vector store is
\* unavailable, and which the limits let through, is answered or fails by
\* the LLM call only: the unavailable tier counts as a miss.
C13_OutageIsAMiss ==
    [][(/\ ChatStep
        /\ result'.unavailable # "none"
        /\ PassesLimits(result'.session_id))
       => (\/ result'.success
           \/ result'.llm_invoked /\ result'.error = "openai_error")]_vars

\* C19: a request without a valid session to a route that writes to the
\* article library or calls the assistant is answered 401, its handler
\* does not run, and the library and the stores are left as they were.
C19_NoSessionNoOperation ==
    [][(calls' = calls + 1 /\ http'.route \in Routes
        /\ ~http'.authenticated)
       => (/\ http'.status = 401
           /\ ~http'.ran
           /\ UNCHANGED <<articles, stores>>)]_vars

\* The requests a caller sent later than time since.
RECURSIVE RequestsSince(_, _)
RequestsSince(log, since) ==
    IF log = <<>> THEN 0
    ELSE (IF Head(log).time > since THEN Head(log).requests ELSE 0)
         + RequestsSince(Tail(log), since)

\* The generations a caller completed later than time since.
RECURSIVE GenerationsSince(_, _)
GenerationsSince(log, since) ==
    IF log = <<>> THEN 0
    ELSE (IF Head(log).time > since THEN Head(log).generations ELSE 0)
         + GenerationsSince(Tail(log), since)

\* C11: a request of a caller who has sent 100 requests within the hour
\* before it (the 101st of that hour), when the global quota check lets it
\* through, is denied with the per-caller limit as the reason.
C11_HundredFirstIsDenied ==
    [][(/\ ChatStep
        /\ check_rate_limit(usage_summary, now).allowed
        /\ RequestsSince(request_log[result'.session_id], now - 3600) >= 100)
       => (/\ ~result'.success
           /\ result'.error = "session_rate_limit"
           /\ ~result'.llm_invoked)]_vars

\* C20: a request is denied by the per-caller limit only if the caller
\* completed at least 100 generations within the hour before it.
C20_DeniedOnlyAfterHundred ==
    [][(ChatStep /\ result'.error = "session_rate_limit")
       => GenerationsSince(request_log[result'.session_id], now - 3600)
              >= 100]_vars

\* ------------------------------------------------------------------------
\* Passage extraction
\* ------------------------------------------------------------------------
\* extract_evidence_passage asked the LLM and got a reply that parsed.
Answered ==
    /\ extraction.op = "extract_evidence_passage"
    /\ extraction.asked
    /\ extraction.reply.ok
    /\ extraction.reply.parsable

\* sub occurs in s at index i (from 0).
OccursAt(s, sub, i) ==
    /\ i >= 0
    /\ i + Len(sub) <= Len(s)
    /\ \A k \in 1..Len(sub) : s[i + k] = sub[k]

Occurs(s, sub) == \E i \in 0..Len(s) : OccursAt(s, sub, i)

FirstOccurrence(s, sub) ==
    CHOOSE i \in 0..Len(s) :
        OccursAt(s, sub, i) /\ \A j \in 0..(i - 1) : ~OccursAt(s, sub, j)

\* The quotation of the reply is a substring of the source.
C14_QuotedVerbatim ==
    Answered /\ Occurs(Document(extraction.source), extraction.reply.passage)

C15_NotVerbatim ==
    /\ Answered
    /\ extraction.reply.passage # <<>>
    /\ ~Occurs(Document(extraction.source), extraction.reply.passage)

\* The significant words of a text: those of more than three characters,
\* without regard to case.
C15_SignificantWords(text) ==
    LET words == split(text)
    IN  {lower(words[k]) : k \in {j \in 1..Len(words) : Len(words[j]) > 3}}

\* Some window of the source holds at least half of the significant words
\* of the quotation.  The windows are the runs of consecutive source words
\* the matcher slides over; a quotation with no significant word has no
\* score and so no window that reaches 50%.
C15_SomeWindowHoldsHalf(source, quotation) ==
    LET words == split(source)
        wanted == C15_SignificantWords(quotation)
        size == window_size(quotation)
        held(i) == {t \in wanted :
                        \E k \in (i + 1)..(i + size) :
                            Len(words[k]) > 3 /\ lower(words[k]) = t}
    IN  /\ wanted # {}
        /\ \E i \in 0..(Len(words) - size) :
               2 * Cardinality(held(i)) >= Cardinality(wanted)

C16_Ends(source) == {e \in 1..Len(source) : source[e] \in {".", "!", "?"}}

C16_SentenceOf(source, offset) ==
    Cardinality({e \in C16_Ends(source) : e <= offset})

\* The terminator number k of a text, given all of them.
C16_End(ends, k) == CHOOSE e \in ends : Cardinality({x \in ends : x <= e}) = k

C16_Sentence(source, k) ==
    LET ends == C16_Ends(source)
        begin == IF k = 0 THEN 0 ELSE C16_End(ends, k)
    IN  strip(SubSeq(source, begin + 1, C16_End(ends, k + 1)))

C16_FirstFive(source) ==
    C16_Sentence(source, 0) \o <<" ">> \o C16_Sentence(source, 1) \o <<" ">> \o
    C16_Sentence(source, 2) \o <<" ">> \o C16_Sentence(source, 3) \o <<" ">> \o
    C16_Sentence(source, 4)

\* _build_context_passage was asked for two sentences on either side of a
\* passage that starts in sentence 2 of a source of five sentences or more.
C16_InSentenceTwo ==
    /\ extraction.op = "build_context_passage"
    /\ extraction.sentences_before = 2
    /\ extraction.sentences_after = 2
    /\ Cardinality(C16_Ends(Document(extraction.source))) >= 5
    /\ C16_SentenceOf(Document(extraction.source), extraction.passage_start) = 2

\* C16 as stated: the context of such a passage is sentences 0 through 4 of
\* the source and nothing else.
C16_ExactlyFiveSentences ==
    C16_InSentenceTwo =>
        extraction.context = C16_FirstFive(Document(extraction.source))

C16_Blank(text) == \A k \in 1..Len(text) : text[k] \in {" ", "\n"}

\* C16, amended: the context of such a passage is sentences 0 through 4,
\* each trimmed and joined by single spaces, when the passage occurs in that
\* text or is blank; otherwise it is that text, a line break and the
\* passage, trimmed.
C16_FiveSentencesAndPassage ==
    C16_InSentenceTwo =>
        LET five == C16_FirstFive(Document(extraction.source))
        IN  extraction.context =
                IF Occurs(five, extraction.passage) \/ C16_Blank(extraction.passage)
                THEN five
                ELSE strip(five \o <<"\n">> \o extraction.passage)

\* A passage that starts in sentence 2 and runs on into sentence 5.
C16_Witness ==
    /\ C16_InSentenceTwo
    /\ extraction.source = "glacier"
    /\ extraction.passage_start = 45
    /\ Len(extraction.passage) = 80
    /\ ~Occurs(C16_FirstFive(GlacierText), extraction.passage)
    /\ Len(extraction.context) > Len(C16_FirstFive(GlacierText))

\* The LLM was asked about a source of at least 100 characters and the call
\* failed: the service raised or timed out, or its reply did not parse.
C17_CallFailed ==
    /\ extraction.op = "extract_evidence_passage"
    /\ extraction.asked
    /\ Len(Document(extraction.source)) >= 100
    /\ ~extraction.reply.ok \/ ~extraction.reply.parsable

\* C17: when the LLM call fails, extract_evidence_passage returns a result
\* whose passage is the first 500 characters of the source and whose success
\* flag is false.
C17_FailureFallsBack ==
    C17_CallFailed =>
        LET source == Document(extraction.source)
            passage == extraction.returned.passage
        IN  /\ Len(passage) = IF Len(source) < 500 THEN Len(source) ELSE 500
            /\ \A k \in 1..Len(passage) : passage[k] = source[k]
            /\ ~extraction.returned.success
            /\ result.op = "extract_evidence_passage"
            /\ ~result.success

\* The call failed on a source of more than 500 characters.
C17_Witness ==
    /\ C17_CallFailed
    /\ extraction.source = "long"
    /\ Len(Document("long")) > 500
    /\ Len(extraction.returned.passage) = 500
    /\ extraction.reply.ok

\* C18: whenever extract_evidence_passage returns success = true, the
\* passage returned occurs in the source, whether it was located exactly or
\* recovered by the fuzzy match.
C18_SuccessMeansInSource ==
    (extraction.op = "extract_evidence_passage" /\ extraction.returned.success)
        => Occurs(Document(extraction.source), extraction.returned.passage)

\* ------------------------------------------------------------------------
\* The lifetime of an exact-cache entry
\* ------------------------------------------------------------------------
\* C21: an entry written at t with time-to-live cache_ttl is stored with the
\* expiry t + cache_ttl; every lookup of its normalized query before the
\* expiry returns its value, and no lookup from the expiry on returns
\* anything.
C21_LiveUntilExpiry ==
    \A q \in Queries :
        LET entry == redis_cache[cache_key(q)]
            found == get_cached_response(redis_cache, q, now)
        IN  /\ entry.present => entry.expires <= now + cache_ttl
            /\ (entry.present /\ now < entry.expires)
                   => (found.present /\ found.value = entry.value)
            /\ (~entry.present \/ now >= entry.expires) => ~found.present

\* ------------------------------------------------------------------------
\* Memory fragments
\* ------------------------------------------------------------------------
\* The turn just returned added its query and its response as two fragments.
C22_TurnStored ==
    memory_collection' =
        memory_collection \o
        << [session_id |-> result'.session_id, role |-> "user",
            content |-> result'.message],
           [session_id |-> result'.session_id, role |-> "assistant",
            content |-> result'.response] >>

\* The fragments stored before the step are all still there, unchanged.
C22_FragmentsKept ==
    /\ Len(memory_collection') >= Len(memory_collection)
    /\ SubSeq(memory_collection', 1, Len(memory_collection)) = memory_collection

\* C22 as stated: every chat turn that returns a response, from a cache or
\* from the LLM, adds one user and one assistant fragment, and no step
\* modifies or removes a fragment.
C22_EveryTurnStored ==
    [][/\ (ChatStep /\ result'.success) => C22_TurnStored
       /\ C22_FragmentsKept]_vars

\* C22, amended: a turn that ends in a successful generation adds one user
\* and one assistant fragment; a turn answered from a cache, a denied turn
\* and a turn whose LLM call failed add none; no step modifies or removes a
\* fragment.
C22_GeneratedTurnsStored ==
    [][/\ (ChatStep /\ Generated(result')) => C22_TurnStored
       /\ (ChatStep /\ ~Generated(result')) => UNCHANGED memory_collection
       /\ C22_FragmentsKept]_vars

\* A turn answered from a cache after a generation had stored its two
\* fragments.
C22_Witness ==
    /\ result.op = "chat"
    /\ result.success
    /\ result.cached
    /\ Len(memory_collection) = 2

\* ------------------------------------------------------------------------
\* Usage records
\* ------------------------------------------------------------------------
\* The operation called the LLM and the call returned a reply.
C23_Completed(r) == r.llm_invoked /\ r.error # "openai_error"

\* C23: every LLM call that completes, whichever operation made it and
\* whether or not its reply parses, adds its tokens to the total of the day.
C23_EveryCallRecorded ==
    [][(calls' = calls + 1 /\ C23_Completed(result'))
       => usage_summary'[Today(now)].total_tokens =
              usage_summary[Today(now)].total_tokens + result'.tokens_used]_vars

\* ------------------------------------------------------------------------
\* Concurrent requests
\* ------------------------------------------------------------------------
\* Worker w looked up the caches in this step.
LookedUp(w) == inflight[w].pc = "admitted" /\ inflight'[w].pc # "admitted"

\* C24: a request whose query is in neither cache tier misses both and
\* calls the LLM whatever the other requests in flight are doing, one for
\* the same query included: nothing deduplicates them.
C24_NoDeduplication ==
    [][\A w \in Workers :
           (/\ LookedUp(w)
            /\ ~Truthy(LiveEntry(inflight[w].message))
            /\ response_collection = <<>>)
           => inflight'[w].pc = "calling"]_vars

\* Two requests for the same normalized query have both missed both tiers
\* and both have their LLM call under way.
C24_Witness ==
    /\ inflight[1].pc = "calling"
    /\ inflight[2].pc = "calling"
    /\ inflight[1].look.consulted
    /\ inflight[2].look.consulted
    /\ cache_key(inflight[1].message) = cache_key(inflight[2].message)
    /\ ~Truthy(LiveEntry(inflight[1].message))
    /\ response_collection = <<>>

\* Worker w went through the limit checks in this step.
Checked(w) == inflight[w].pc = "idle" /\ inflight'[w].pc # "idle"

\* C25: a request is checked against the usage recorded so far, so it is
\* denied once the recorded total of the day has reached the ceiling and
\* passes the global check before; the requests admitted before a
\* generation is recorded go on and add their tokens past the ceiling.
C25_CheckAgainstRecorded ==
    [][\A w \in Workers :
           Checked(w) =>
               /\ get_today_usage(usage_summary, now) >= daily_token_limit
                      => /\ inflight'[w].pc = "done"
                         /\ inflight'[w].outcome = "denied_global"
               /\ inflight'[w].outcome = "denied_global"
                      => ~check_rate_limit(usage_summary, now).allowed]_vars

\* Two requests passed the check before either was recorded and both
\* generated: the total of the day is more than one generation past the
\* ceiling, which no sequence of requests served one after the other
\* reaches.
C25_Witness ==
    /\ \A w \in {1, 2} : inflight[w].pc = "done" /\ inflight[w].outcome = "generated"
    /\ summary_start[Today(now)].total_tokens < daily_token_limit
    /\ get_today_usage(usage_summary, now) >= daily_token_limit + 1200


\* The quotation was not found verbatim and a passage was recovered for it.
C26_FuzzyRecovery ==
    /\ C15_NotVerbatim
    /\ extraction.returned.success

\* The number of the quotation's significant words held by the window of
\* size source words that starts after word i.
C26_Held(words, wanted, i, size) ==
    Cardinality({t \in wanted :
                     \E k \in (i + 1)..(i + size) :
                         Len(words[k]) > 3 /\ lower(words[k]) = t})

\* The earliest of the best-scoring windows of size source words, with 20
\* more words on each side as far as the source goes, as one line of text;
\* nothing when the source has no window of that size.
C26_Recovered(source, quotation, size) ==
    LET words == split(source)
        wanted == C15_SignificantWords(quotation)
        score == [i \in 0..(Len(words) - size) |->
                      C26_Held(words, wanted, i, size)]
        best == CHOOSE i \in DOMAIN score :
                    /\ \A j \in DOMAIN score : score[j] <= score[i]
                    /\ \A j \in 0..(i - 1) : score[j] < score[i]
    IN  IF Len(words) < size THEN <<>>
        ELSE join(SubSeq(words, max(0, best - 20) + 1,
                         min(Len(words), best + size + 20)))

\* C26 as stated: the passage fuzzy recovery returns is the best-scoring
\* window (the earliest on a tie) among the windows of as many source words
\* as the quotation has words, extended by 20 words on each side and
\* clipped to the ends of the source.
C26_WindowOfQuotationLength ==
    C26_FuzzyRecovery =>
        extraction.returned.passage =
            C26_Recovered(Document(extraction.source),
                          extraction.reply.passage,
                          Len(split(extraction.reply.passage)))

\* C26: the passage fuzzy recovery returns is the best-scoring window (the
\* earliest on a tie) among the windows whose length is the quotation's word
\* count or 10 words, whichever is more, extended by 20 words on each side
\* and clipped to the ends of the source, its words joined by single spaces.
C26_WindowOfAtLeastTenWords ==
    C26_FuzzyRecovery =>
        LET count == Len(split(extraction.reply.passage))
        IN  extraction.returned.passage =
                C26_Recovered(Document(extraction.source),
                              extraction.reply.passage,
                              IF count > 10 THEN count ELSE 10)

\* A four-word quotation was recovered from the sixty-word source: the
\* first ten-word window holding three of its words starts after word 28,
\* and words 9 to 58 are returned, clipped at neither end.
C26_Witness ==
    /\ C26_FuzzyRecovery
    /\ extraction.source = "survey"
    /\ extraction.reply.passage = QuoteReefsOtherCase
    /\ extraction.returned.passage = join(SubSeq(split(SurveyText), 9, 58))


\* extract_evidence_passage was given a source of fewer than 100 characters
\* once stripped.
C27_TooShort ==
    /\ extraction.op = "extract_evidence_passage"
    /\ Len(strip(Document(extraction.source))) < 100

\* The quotation of the reply occurs nowhere in the source and no window of
\* the source holds half of its significant words.
C27_NotLocated ==
    /\ C15_NotVerbatim
    /\ ~C15_SomeWindowHoldsHalf(Document(extraction.source),
                                extraction.reply.passage)

\* C27: when the source is too short, or the quotation can be located
\* neither exactly nor by fuzzy recovery, extract_evidence_passage returns a
\* failure result (success = false) that still carries a non-empty fallback
\* passage.
C27_FailureCarriesPassage ==
    (C27_TooShort \/ C27_NotLocated) =>
        /\ ~extraction.returned.success
        /\ extraction.returned.passage # <<>>


\* ------------------------------------------------------------------------
\* Cache hits
\* ------------------------------------------------------------------------
\* A step that is one chat request answered from the exact or the semantic
\* cache.
C29_CacheHit == ChatStep /\ result'.success /\ result'.cached

\* The row of the day counts one more query and one more cache hit, with
\* the same tokens; the rows of the other days are as they were.
C29_StatsRowCounted ==
    agent_stats' =
        [agent_stats EXCEPT ![Today(now)] =
            [total_queries |-> @.total_queries + 1,
             total_tokens |-> @.total_tokens,
             cache_hits |-> @.cache_hits + 1]]

C30_Denied(s) == get_rate_limit(redis_rate, s, now) <= 0

\* The caller completed a generation less than one hour ago.
C30_GeneratedWithinTheHour(s) ==
    \E k \in 1..Len(request_log[s]) :
        /\ request_log[s][k].generations > 0
        /\ now < request_log[s][k].time + RateWindow

\* A chat request that did not end in a successful generation leaves every
\* caller's counter, value and expiry, as it was.
C30_OnlyGenerationsCount ==
    (ChatStep /\ ~Generated(result')) => UNCHANGED redis_rate

\* A caller's counter is there exactly until one hour after the caller's
\* last successful generation.
C30_CounterLastsOneHour ==
    \A s \in Sessions :
        RedisGet(redis_rate, s, now).present <=> C30_GeneratedWithinTheHour(s)

\* C30: a caller denied by the per-caller limit is eventually allowed again:
\* denied requests, cache hits and failed generations neither increment the
\* caller's counter nor refresh its expiry, so the counter disappears one
\* hour after the caller's last successful generation and the next request
\* passes the per-caller check.
C30_EventuallyAllowedAgain ==
    /\ [][C30_OnlyGenerationsCount]_vars
    /\ []C30_CounterLastsOneHour
    /\ \A s \in Sessions : C30_Denied(s) ~> ~C30_Denied(s)

\* The caller was denied by the per-caller limit, and one hour after its
\* last generation the counter is gone and the check passes again.
C30_Witness ==
    /\ result.op = "chat"
    /\ result.error = "session_rate_limit"
    /\ result.session_id = "s1"
    /\ ~RedisGet(redis_rate, "s1", now).present
    /\ ~C30_GeneratedWithinTheHour("s1")
    /\ get_rate_limit(redis_rate, "s1", now) = SessionLimit


\* ------------------------------------------------------------------------
\* Admin login lockout
\* ------------------------------------------------------------------------
\* A step that is one login request.
C28_Attempt == calls' = calls + 1 /\ login'.status # 0

\* The logins of the address refused with 401 since its last successful
\* login come in runs of five: each fifth one starts a lockout, and the one
\* after a lockout starts a new run.  The address is locked out when its
\* last failure was a fifth one and less than 15 minutes have passed.
C28_LockedOut(ip) ==
    LET failures == failed_at[ip]
    IN  /\ failures # <<>>
        /\ Len(failures) % 5 = 0
        /\ now < failures[Len(failures)] + 15 * 60

\* C28: after 5 failed logins from one address with no successful login in
\* between, every further login from that address, the correct password
\* included, is rejected with 429 until 15 minutes after the fifth failure;
\* after that the failure count starts again from zero, and a successful
\* login always clears the count.
C28_LockoutAfterFiveFailures ==
    [][C28_Attempt =>
           LET ip == login'.ip
               count == login_attempts'[ip].attempts
           IN  /\ login'.status = 429 <=> C28_LockedOut(ip)
               /\ login'.status = 429 => UNCHANGED login_attempts
               /\ login'.status = 200 <=>
                      (~C28_LockedOut(ip) /\ login'.correct)
               /\ login'.status = 401 <=>
                      (~C28_LockedOut(ip) /\ ~login'.correct)
               /\ login'.status = 200 =>
                      /\ count = 0
                      /\ login_attempts'[ip].lockout_until = None
               /\ login'.status = 401 =>
                      count = (Len(failed_at[ip]) % 5) + 1]_vars

\* The correct password was rejected with 429 some time after the fifth
\* failure, less than 15 minutes after it.
C28_Witness ==
    /\ login.status = 429
    /\ login.correct
    /\ Len(failed_at[login.ip]) = 5
    /\ login.time > failed_at[login.ip][5]
    /\ login.time < failed_at[login.ip][5] + 15 * 60

\* The lockout is over and the next failure is counted as the first.
C28_RestartWitness ==
    /\ login.status = 401
    /\ Len(failed_at[login.ip]) = 6
    /\ login_attempts[login.ip].attempts = 1
    /\ login_attempts[login.ip].lockout_until = None

====
